---- MODULE Spec2Model ----
(***************************************************************************)
(* Pattern simulation engine of the Algorithm Learning Studio              *)
(* (src/src/lib/algorithms.ts).  Every simulator is a pure function from   *)
(* typed inputs to {steps, result}; it is modelled as a state machine that *)
(* appends step records to `steps` exactly where the code calls            *)
(* steps.push, and sets `result` where the code returns.                   *)
(*                                                                         *)
(* Encodings.  JavaScript arrays are sequences; the code's 0-based index i *)
(* reads element i+1.  null / undefined / +-Infinity are the empty tuple   *)
(* Null, and a present value v of a nullable slot is the 1-tuple Some(v).  *)
(* Arrays of arrays that the code copies shallowly keep references: the    *)
(* inner arrays live in `store` and a snapshot holds their addresses.      *)
(***************************************************************************)
EXTENDS Integers, Sequences, FiniteSets, TLC

VARIABLES
    sim,      \* pattern key of the simulator being run
    pc,       \* position inside the simulator; "done" after its return
    input,    \* the arguments of the call
    mem,      \* the local variables of the call
    steps,    \* the `steps` array of the call
    result,   \* the `result` of the returned SimulationResult
    store,    \* inner arrays allocated by the call, by address
    earlier   \* what the caller holds from an earlier call with the same arguments

vars == <<sim, pc, input, mem, steps, result, store, earlier>>

----------------------------------------------------------------------------
(* Bounds of the explored inputs *)

MaxLen == 4
MaxVal == 2

----------------------------------------------------------------------------
(* Generic helpers *)

Null == <<>>
Some(v) == <<v>>

At(s, i) == s[i + 1]

Min2(a, b) == IF a <= b THEN a ELSE b
Max2(a, b) == IF a >= b THEN a ELSE b

SeqsUpTo(S, n) == UNION {[1..k -> S] : k \in 0..n}

Vals == 0..MaxVal
NumSeqs == SeqsUpTo(Vals, MaxLen)

RECURSIVE SumSeq(_)
SumSeq(s) == IF s = <<>> THEN 0 ELSE Head(s) + SumSeq(Tail(s))

SetMin(S) == CHOOSE x \in S : \A y \in S : x <= y
SetMax(S) == CHOOSE x \in S : \A y \in S : x >= y

\* [...set].sort((a, b) => a - b)
RECURSIVE SortAsc(_)
SortAsc(S) == IF S = {} THEN <<>> ELSE <<SetMin(S)>> \o SortAsc(S \ {SetMin(S)})

\* the expression `steps.length` evaluated against the array ss
StepNoOneBased(ss) == Len(ss) + 1
StepNo(ss) == Len(ss)

StartState ==
    /\ steps = <<>>
    /\ result = Null
    /\ store = <<>>
    /\ earlier = Null

\* Some list arguments are drawn when the code first reads them.  A call that
\* repeats an earlier one is handed the recorded arguments again, in the same
\* order: x is the next element of the list, or the argument read after it.
Given == IF earlier = Null THEN input ELSE earlier[1].input

NextArgument(read, given, x) ==
    earlier = Null \/ (Len(read) < Len(given) /\ x = given[Len(read) + 1])

LastArgument(read, given, x, last) ==
    earlier = Null \/ (read = given /\ x = last)

----------------------------------------------------------------------------
(* simulateHashDuplicate(nums) *)

\* the default input of the visualizer
PresetRepeats == <<2, 7, 11, 7, 3, 11>>

InitHashDuplicate ==
    /\ sim = "hash_set"
    /\ pc = "scan"
    /\ input \in {[nums |-> s] : s \in NumSeqs \cup {PresetRepeats}}
    /\ mem = [i |-> 0, seen |-> {}]
    /\ StartState

HashDuplicateScanNoReturn ==
    /\ sim = "hash_set" /\ pc = "scan"
    /\ mem.i < Len(input.nums)
    /\ LET value == At(input.nums, mem.i) IN
       /\ steps' = Append(steps, [step |-> StepNo(steps), index |-> mem.i, value |-> value,
                                  action |-> IF value \in mem.seen THEN "duplicate found -> stop"
                                             ELSE "insert into set",
                                  seen |-> SortAsc(mem.seen \cup {value})])
       /\ mem' = [i |-> mem.i + 1, seen |-> mem.seen \cup {value}]
    /\ UNCHANGED <<sim, earlier, pc, input, result, store>>

HashDuplicateScan ==
    /\ sim = "hash_set" /\ pc = "scan"
    /\ mem.i < Len(input.nums)
    /\ LET value == At(input.nums, mem.i) IN
       IF value \in mem.seen
       THEN /\ steps' = Append(steps, [step |-> StepNo(steps), index |-> mem.i, value |-> value,
                                       action |-> "duplicate found -> stop", seen |-> SortAsc(mem.seen)])
            /\ result' = Some(value)
            /\ pc' = "done"
            /\ mem' = mem
       ELSE /\ steps' = Append(steps, [step |-> StepNo(steps), index |-> mem.i, value |-> value,
                                       action |-> "insert into set",
                                       seen |-> SortAsc(mem.seen \cup {value})])
            /\ mem' = [i |-> mem.i + 1, seen |-> mem.seen \cup {value}]
            /\ UNCHANGED <<pc, result>>
    /\ UNCHANGED <<sim, earlier, input, store>>

HashDuplicateFinish ==
    /\ sim = "hash_set" /\ pc = "scan"
    /\ mem.i >= Len(input.nums)
    /\ steps' = Append(steps, [step |-> StepNo(steps), action |-> "finished: no duplicates",
                               seen |-> SortAsc(mem.seen)])
    /\ result' = Null
    /\ pc' = "done"
    /\ UNCHANGED <<sim, earlier, input, mem, store>>

NextHashDuplicate == HashDuplicateScan \/ HashDuplicateFinish

----------------------------------------------------------------------------
(* simulateHashFrequency(nums) *)

\* freq.get(value) ?? 0
FreqGet(freq, value) == IF value \in DOMAIN freq THEN freq[value] ELSE 0

\* freq.set(value, count)
FreqSet(freq, value, count) ==
    [x \in (DOMAIN freq) \cup {value} |-> IF x = value THEN count ELSE freq[x]]

InitHashFrequency ==
    /\ sim = "hash_map"
    /\ pc = "scan"
    /\ input \in {[nums |-> s] : s \in NumSeqs}
    /\ mem = [i |-> 0, freq |-> [x \in {} |-> 0]]
    /\ StartState

HashFrequencyScan ==
    /\ sim = "hash_map" /\ pc = "scan"
    /\ mem.i < Len(input.nums)
    /\ LET value == At(input.nums, mem.i)
           nextCount == FreqGet(mem.freq, value) + 1
           freq2 == FreqSet(mem.freq, value, nextCount)
       IN /\ steps' = Append(steps, [step |-> StepNo(steps), index |-> mem.i, value |-> value,
                                     countAfter |-> nextCount, map |-> freq2,
                                     action |-> "update frequency"])
          /\ mem' = [i |-> mem.i + 1, freq |-> freq2]
    /\ UNCHANGED <<sim, earlier, pc, input, result, store>>

HashFrequencyReturn ==
    /\ sim = "hash_map" /\ pc = "scan"
    /\ mem.i >= Len(input.nums)
    /\ result' = mem.freq
    /\ pc' = "done"
    /\ UNCHANGED <<sim, earlier, input, mem, steps, store>>

NextHashFrequency == HashFrequencyScan \/ HashFrequencyReturn

----------------------------------------------------------------------------
(* simulateTwoPointers(nums, target) *)

InitTwoPointers ==
    /\ sim = "two_pointers"
    /\ pc = "start"
    /\ input \in {[nums |-> s, target |-> t] : s \in NumSeqs, t \in 0..(2 * MaxVal)}
    /\ mem = [left |-> 0, right |-> Len(input.nums) - 1]
    /\ StartState

TwoPointersEmpty ==
    /\ sim = "two_pointers" /\ pc = "start"
    /\ Len(input.nums) = 0
    /\ steps' = <<[step |-> 0, action |-> "empty input"]>>
    /\ result' = FALSE
    /\ pc' = "done"
    /\ UNCHANGED <<sim, earlier, input, mem, store>>

TwoPointersCompare ==
    /\ sim = "two_pointers" /\ pc \in {"start", "loop"}
    /\ Len(input.nums) # 0
    /\ mem.left < mem.right
    /\ LET lv == At(input.nums, mem.left)
           rv == At(input.nums, mem.right)
           sum == lv + rv
           action == IF sum > input.target THEN "sum > target -> move right left"
                     ELSE IF sum < input.target THEN "sum < target -> move left right"
                     ELSE "sum == target -> found"
       IN /\ steps' = Append(steps, [step |-> StepNo(steps), left |-> mem.left, right |-> mem.right,
                                     leftValue |-> lv, rightValue |-> rv, sum |-> sum,
                                     target |-> input.target, action |-> action])
          /\ IF sum = input.target
             THEN /\ result' = TRUE /\ pc' = "done" /\ mem' = mem
             ELSE /\ pc' = "loop"
                  /\ mem' = IF sum < input.target
                            THEN [mem EXCEPT !.left = @ + 1]
                            ELSE [mem EXCEPT !.right = @ - 1]
                  /\ UNCHANGED result
    /\ UNCHANGED <<sim, earlier, input, store>>

TwoPointersCrossed ==
    /\ sim = "two_pointers" /\ pc \in {"start", "loop"}
    /\ Len(input.nums) # 0
    /\ ~(mem.left < mem.right)
    /\ steps' = Append(steps, [step |-> StepNo(steps), action |-> "pointers crossed -> not found"])
    /\ result' = FALSE
    /\ pc' = "done"
    /\ UNCHANGED <<sim, earlier, input, mem, store>>

NextTwoPointers == TwoPointersEmpty \/ TwoPointersCompare \/ TwoPointersCrossed

----------------------------------------------------------------------------
(* simulateSlidingWindow(nums, k) *)

\* the 'Window expands and shrinks' preset
PresetWindow == [nums |-> <<2, 1, 3, 2, 1, 1, 1>>, k |-> 5]

InitSlidingWindow ==
    /\ sim = "sliding_window"
    /\ pc = "expand"
    /\ input \in {[nums |-> s, k |-> k] : s \in NumSeqs, k \in -1..(MaxVal + 1)}
                 \cup {PresetWindow}
    /\ mem = [left |-> 0, right |-> 0, sum |-> 0, best |-> 0]
    /\ StartState

SlidingWindowExpand ==
    /\ sim = "sliding_window" /\ pc = "expand"
    /\ mem.right < Len(input.nums)
    /\ LET sum == mem.sum + At(input.nums, mem.right) IN
       /\ steps' = Append(steps, [step |-> StepNo(steps), phase |-> "expand", left |-> mem.left,
                                  right |-> mem.right, sum |-> sum, best |-> mem.best,
                                  action |-> "add nums[" \o ToString(mem.right) \o "]"])
       /\ mem' = [mem EXCEPT !.sum = sum]
    /\ pc' = "shrink"
    /\ UNCHANGED <<sim, earlier, input, result, store>>

SlidingWindowShrink ==
    /\ sim = "sliding_window" /\ pc = "shrink"
    /\ mem.sum > input.k /\ mem.left <= mem.right
    /\ LET removed == At(input.nums, mem.left)
           sum == mem.sum - removed
           left == mem.left + 1
       IN /\ steps' = Append(steps, [step |-> StepNo(steps), phase |-> "shrink", left |-> left,
                                     right |-> mem.right, sum |-> sum, best |-> mem.best,
                                     action |-> "remove " \o ToString(removed)])
          /\ mem' = [mem EXCEPT !.sum = sum, !.left = left]
    /\ UNCHANGED <<sim, earlier, pc, input, result, store>>

SlidingWindowUpdateOverwrites ==
    /\ sim = "sliding_window" /\ pc = "shrink"
    /\ ~(mem.sum > input.k /\ mem.left <= mem.right)
    /\ LET best == IF mem.left <= mem.right
                   THEN mem.right - mem.left + 1
                   ELSE mem.best
       IN /\ steps' = Append(steps, [step |-> StepNo(steps), phase |-> "update", left |-> mem.left,
                                     right |-> mem.right, sum |-> mem.sum, best |-> best,
                                     action |-> "update best window"])
          /\ mem' = [mem EXCEPT !.best = best, !.right = @ + 1]
    /\ pc' = "expand"
    /\ UNCHANGED <<sim, earlier, input, result, store>>

SlidingWindowUpdate ==
    /\ sim = "sliding_window" /\ pc = "shrink"
    /\ ~(mem.sum > input.k /\ mem.left <= mem.right)
    /\ LET best == IF mem.left <= mem.right
                   THEN Max2(mem.best, mem.right - mem.left + 1)
                   ELSE mem.best
       IN /\ steps' = Append(steps, [step |-> StepNo(steps), phase |-> "update", left |-> mem.left,
                                     right |-> mem.right, sum |-> mem.sum, best |-> best,
                                     action |-> "update best window"])
          /\ mem' = [mem EXCEPT !.best = best, !.right = @ + 1]
    /\ pc' = "expand"
    /\ UNCHANGED <<sim, earlier, input, result, store>>

SlidingWindowReturn ==
    /\ sim = "sliding_window" /\ pc = "expand"
    /\ mem.right >= Len(input.nums)
    /\ result' = mem.best
    /\ pc' = "done"
    /\ UNCHANGED <<sim, earlier, input, mem, steps, store>>

NextSlidingWindow ==
    SlidingWindowExpand \/ SlidingWindowShrink \/ SlidingWindowUpdate \/ SlidingWindowReturn

----------------------------------------------------------------------------
(* simulateBinarySearch(nums, target) *)

IsSorted(s) == \A i \in 1..(Len(s) - 1) : s[i] <= s[i + 1]

\* the "Many duplicates" preset of the visualizer
PresetDuplicates == <<1, 2, 2, 2, 4, 5>>

SortedSeqs == {s \in NumSeqs : IsSorted(s)} \cup {PresetDuplicates}

\* lo + Math.floor((hi - lo) / 2)
Mid(lo, hi) == lo + ((hi - lo) \div 2)

\* the branch condition value < target
MovesLoOnEqual(value, target) == value <= target
MovesLo(value, target) == value < target

\* the else branch's hi = mid
NewHiClosed(mid) == mid - 1
NewHi(mid) == mid

InitBinarySearch ==
    /\ sim = "binary_search"
    /\ pc = "loop"
    /\ input \in {[nums |-> s, target |-> t] : s \in SortedSeqs, t \in -1..(MaxVal + 1)}
    /\ mem = [lo |-> 0, hi |-> Len(input.nums)]
    /\ StartState

BinarySearchCompare ==
    /\ sim = "binary_search" /\ pc = "loop"
    /\ mem.lo < mem.hi
    /\ LET mid == Mid(mem.lo, mem.hi)
           value == At(input.nums, mid)
       IN IF MovesLo(value, input.target)
          THEN /\ mem' = [mem EXCEPT !.lo = mid + 1]
               /\ steps' = Append(steps, [step |-> StepNo(steps), lo |-> mid + 1, hi |-> mem.hi,
                                          mid |-> mid, midValue |-> value, target |-> input.target,
                                          action |-> "value < target -> move lo right"])
          ELSE /\ mem' = [mem EXCEPT !.hi = NewHi(mid)]
               /\ steps' = Append(steps, [step |-> StepNo(steps), lo |-> mem.lo, hi |-> NewHi(mid),
                                          mid |-> mid, midValue |-> value, target |-> input.target,
                                          action |-> "value >= target -> move hi left"])
    /\ UNCHANGED <<sim, earlier, pc, input, result, store>>

BinarySearchDone ==
    /\ sim = "binary_search" /\ pc = "loop"
    /\ ~(mem.lo < mem.hi)
    /\ steps' = Append(steps, [step |-> StepNo(steps), action |-> "done", lowerBound |-> mem.lo,
                               target |-> input.target])
    /\ result' = mem.lo
    /\ pc' = "done"
    /\ UNCHANGED <<sim, earlier, input, mem, store>>

NextBinarySearch == BinarySearchCompare \/ BinarySearchDone

----------------------------------------------------------------------------
(* simulateStackParens(text) *)

Chars == {"(", ")", "[", "]", "a"}

\* const match = { ')': '(', ']': '[', '}': '{' }
Match == [c \in {")", "]", "}"} |-> IF c = ")" THEN "(" ELSE IF c = "]" THEN "[" ELSE "{"]
Opens == {Match[c] : c \in DOMAIN Match}

\* stack.join('')
RECURSIVE Join(_)
Join(s) == IF s = <<>> THEN "" ELSE Head(s) \o Join(Tail(s))

InitStackParens ==
    /\ sim = "stack"
    /\ pc = "scan"
    /\ input \in {[text |-> s] : s \in SeqsUpTo(Chars, MaxLen)}
    /\ mem = [i |-> 0, stack |-> <<>>]
    /\ StartState

StackParensChar ==
    /\ sim = "stack" /\ pc = "scan"
    /\ mem.i < Len(input.text)
    /\ LET ch == At(input.text, mem.i)
           n == Len(mem.stack)
       IN IF ch \in Opens
          THEN /\ mem' = [i |-> mem.i + 1, stack |-> Append(mem.stack, ch)]
               /\ steps' = Append(steps, [step |-> StepNo(steps), index |-> mem.i, char |-> ch,
                                          stack |-> Join(Append(mem.stack, ch)),
                                          action |-> "push open bracket"])
               /\ UNCHANGED <<pc, result>>
          ELSE IF ch \in DOMAIN Match
          THEN LET top == IF n = 0 THEN Null ELSE Some(mem.stack[n])
                   rest == IF n = 0 THEN <<>> ELSE SubSeq(mem.stack, 1, n - 1)
                   ok == top = Some(Match[ch])
               IN /\ steps' = Append(steps, [step |-> StepNo(steps), index |-> mem.i, char |-> ch,
                                             stack |-> Join(rest),
                                             action |-> IF ok THEN "pop and compare"
                                                        ELSE "mismatch -> invalid"])
                  /\ IF ok
                     THEN /\ mem' = [i |-> mem.i + 1, stack |-> rest]
                          /\ UNCHANGED <<pc, result>>
                     ELSE /\ mem' = [mem EXCEPT !.stack = rest]
                          /\ result' = FALSE
                          /\ pc' = "done"
          ELSE /\ mem' = [mem EXCEPT !.i = @ + 1]
               /\ steps' = Append(steps, [step |-> StepNo(steps), index |-> mem.i, char |-> ch,
                                          stack |-> Join(mem.stack),
                                          action |-> "ignore non-bracket"])
               /\ UNCHANGED <<pc, result>>
    /\ UNCHANGED <<sim, earlier, input, store>>

StackParensEnd ==
    /\ sim = "stack" /\ pc = "scan"
    /\ mem.i >= Len(input.text)
    /\ LET valid == Len(mem.stack) = 0 IN
       /\ steps' = Append(steps, [step |-> StepNo(steps),
                                  action |-> IF valid THEN "valid" ELSE "unfinished opens -> invalid",
                                  stack |-> Join(mem.stack)])
       /\ result' = valid
    /\ pc' = "done"
    /\ UNCHANGED <<sim, earlier, input, mem, store>>

NextStackParens == StackParensChar \/ StackParensEnd

----------------------------------------------------------------------------
(* simulateFibMemo(n) *)

MaxFib == 5

\* A frame of the recursive closure fib: its argument x, where it is
\* ("call": entered, "first": inside fib(x - 1), "second": inside fib(x - 2))
\* and the value of fib(x - 1) once known.
FibFrame(x) == [x |-> x, at |-> "call", a |-> 0]

InitFibMemo ==
    /\ sim = "dp"
    /\ pc = "start"
    /\ input \in {[n |-> n] : n \in -1..MaxFib}
    /\ mem = [stack |-> <<>>, memo |-> [x \in {} |-> 0], ret |-> Null]
    /\ StartState

FibMemoInvalid ==
    /\ sim = "dp" /\ pc = "start"
    /\ input.n < 0
    /\ steps' = <<[step |-> 0, action |-> "invalid n: must be >= 0"]>>
    /\ result' = -1
    /\ pc' = "done"
    /\ UNCHANGED <<sim, earlier, input, mem, store>>

FibMemoStart ==
    /\ sim = "dp" /\ pc = "start"
    /\ ~(input.n < 0)
    /\ mem' = [mem EXCEPT !.stack = <<FibFrame(input.n)>>]
    /\ pc' = "run"
    /\ UNCHANGED <<sim, earlier, input, steps, result, store>>

\* entry of fib(x): 'call', then base case, memo hit, or descent into fib(x - 1)
FibMemoCall ==
    /\ sim = "dp" /\ pc = "run"
    /\ mem.stack # <<>>
    /\ LET d == Len(mem.stack)
           f == mem.stack[d]
           called == Append(steps, [step |-> StepNo(steps), n |-> f.x, action |-> "call",
                                    memoSize |-> Cardinality(DOMAIN mem.memo)])
       IN /\ f.at = "call"
          /\ IF f.x <= 1
             THEN /\ steps' = Append(called, [step |-> StepNo(called), n |-> f.x,
                                              action |-> "base case",
                                              memoSize |-> Cardinality(DOMAIN mem.memo)])
                  /\ mem' = [mem EXCEPT !.stack = SubSeq(mem.stack, 1, d - 1), !.ret = Some(f.x)]
             ELSE IF f.x \in DOMAIN mem.memo
             THEN /\ steps' = Append(called, [step |-> StepNo(called), n |-> f.x,
                                              action |-> "memo hit",
                                              memoSize |-> Cardinality(DOMAIN mem.memo)])
                  /\ mem' = [mem EXCEPT !.stack = SubSeq(mem.stack, 1, d - 1),
                                        !.ret = Some(mem.memo[f.x])]
             ELSE /\ steps' = called
                  /\ mem' = [mem EXCEPT !.stack = Append([mem.stack EXCEPT ![d].at = "first"],
                                                         FibFrame(f.x - 1))]
    /\ UNCHANGED <<sim, earlier, pc, input, result, store>>

\* a recursive call returned into fib(x)
FibMemoResume ==
    /\ sim = "dp" /\ pc = "run"
    /\ mem.stack # <<>>
    /\ LET d == Len(mem.stack)
           f == mem.stack[d]
       IN /\ f.at \in {"first", "second"}
          /\ IF f.at = "first"
             THEN /\ mem' = [mem EXCEPT !.stack = Append([mem.stack EXCEPT ![d].at = "second",
                                                                            ![d].a = mem.ret[1]],
                                                         FibFrame(f.x - 2)),
                                        !.ret = Null]
                  /\ UNCHANGED steps
             ELSE LET value == f.a + mem.ret[1]
                      memo2 == FreqSet(mem.memo, f.x, value)
                  IN /\ steps' = Append(steps, [step |-> StepNo(steps), n |-> f.x,
                                                action |-> "store memo[" \o ToString(f.x) \o "]",
                                                memoSize |-> Cardinality(DOMAIN memo2),
                                                value |-> value])
                     /\ mem' = [stack |-> SubSeq(mem.stack, 1, d - 1), memo |-> memo2,
                                ret |-> Some(value)]
    /\ UNCHANGED <<sim, earlier, pc, input, result, store>>

FibMemoDone ==
    /\ sim = "dp" /\ pc = "run"
    /\ mem.stack = <<>>
    /\ steps' = Append(steps, [step |-> StepNo(steps), n |-> input.n, action |-> "done",
                               result |-> mem.ret[1], memoSize |-> Cardinality(DOMAIN mem.memo)])
    /\ result' = mem.ret[1]
    /\ pc' = "done"
    /\ UNCHANGED <<sim, earlier, input, mem, store>>

NextFibMemo == FibMemoInvalid \/ FibMemoStart \/ FibMemoCall \/ FibMemoResume \/ FibMemoDone

----------------------------------------------------------------------------
(* heapPushMin / heapPopMin and simulateHeapTopK(nums, k) *)

\* [heap[i], heap[j]] = [heap[j], heap[i]]
Swap(h, i, j) == [h EXCEPT ![i + 1] = h[j + 1], ![j + 1] = h[i + 1]]

\* the while loop of heapPushMin, from index i
RECURSIVE SiftUp(_, _)
SiftUp(h, i) ==
    IF i > 0
    THEN LET p == (i - 1) \div 2 IN
         IF At(h, p) <= At(h, i) THEN h ELSE SiftUp(Swap(h, p, i), p)
    ELSE h

heapPushMinNoSift(heap, value) == Append(heap, value)
heapPushMin(heap, value) == SiftUp(Append(heap, value), Len(heap))

\* the while (true) loop of heapPopMin, from index i
RECURSIVE SiftDown(_, _)
SiftDown(h, i) ==
    LET left == i * 2 + 1
        right == i * 2 + 2
        s1 == IF left < Len(h) /\ At(h, left) < At(h, i) THEN left ELSE i
        smallest == IF right < Len(h) /\ At(h, right) < At(h, s1) THEN right ELSE s1
    IN IF smallest = i THEN h ELSE SiftDown(Swap(h, i, smallest), smallest)

\* returns the popped root (Null on an empty heap) and the heap left behind
heapPopMinLast(heap) ==
    IF Len(heap) = 0
    THEN [root |-> Null, heap |-> heap]
    ELSE [root |-> Some(heap[Len(heap)]), heap |-> SubSeq(heap, 1, Len(heap) - 1)]
heapPopMin(heap) ==
    IF Len(heap) = 0
    THEN [root |-> Null, heap |-> heap]
    ELSE LET root == heap[1]
             last == heap[Len(heap)]
             rest == SubSeq(heap, 1, Len(heap) - 1)
         IN [root |-> Some(root),
             heap |-> IF Len(rest) > 0 THEN SiftDown([rest EXCEPT ![1] = last], 0) ELSE rest]

RemoveAt(s, j) == SubSeq(s, 1, j - 1) \o SubSeq(s, j + 1, Len(s))

\* [...heap].sort((a, b) => b - a)
RECURSIVE SortDesc(_)
SortDesc(s) ==
    IF s = <<>> THEN <<>>
    ELSE LET m == SetMax({s[i] : i \in DOMAIN s})
             j == CHOOSE j \in DOMAIN s : s[j] = m
         IN <<m>> \o SortDesc(RemoveAt(s, j))

InitHeapTopK ==
    /\ sim = "heap"
    /\ pc = "start"
    /\ input \in {[nums |-> s, k |-> k] : s \in NumSeqs, k \in -1..MaxLen}
    /\ mem = [i |-> 0, heap |-> <<>>]
    /\ StartState

HeapTopKInvalid ==
    /\ sim = "heap" /\ pc = "start"
    /\ input.k <= 0
    /\ steps' = <<[step |-> 0, action |-> "invalid k: must be > 0"]>>
    /\ result' = <<>>
    /\ pc' = "done"
    /\ UNCHANGED <<sim, earlier, input, mem, store>>

\* one callback of nums.forEach
HeapTopKElement ==
    /\ sim = "heap" /\ pc \in {"start", "loop"}
    /\ ~(input.k <= 0)
    /\ mem.i < Len(input.nums)
    /\ LET x == At(input.nums, mem.i)
           pushed == heapPushMin(mem.heap, x)
           s1 == Append(steps, [step |-> StepNo(steps), index |-> mem.i, value |-> x,
                                action |-> "push into min-heap", heap |-> pushed])
           popped == heapPopMin(pushed)
       IN IF Len(pushed) > input.k
          THEN /\ steps' = Append(s1, [step |-> StepNo(s1), index |-> mem.i,
                                       action |-> "heap size > k -> pop smallest",
                                       removed |-> popped.root, heap |-> popped.heap])
               /\ mem' = [i |-> mem.i + 1, heap |-> popped.heap]
          ELSE /\ steps' = s1
               /\ mem' = [i |-> mem.i + 1, heap |-> pushed]
    /\ pc' = "loop"
    /\ UNCHANGED <<sim, earlier, input, result, store>>

HeapTopKDone ==
    /\ sim = "heap" /\ pc \in {"start", "loop"}
    /\ ~(input.k <= 0)
    /\ mem.i >= Len(input.nums)
    /\ LET topKDescending == SortDesc(mem.heap) IN
       /\ steps' = Append(steps, [step |-> StepNo(steps), action |-> "done",
                                  topKDescending |-> topKDescending])
       /\ result' = topKDescending
    /\ pc' = "done"
    /\ UNCHANGED <<sim, earlier, input, mem, store>>

NextHeapTopK == HeapTopKInvalid \/ HeapTopKElement \/ HeapTopKDone

----------------------------------------------------------------------------
(* simulateMonotonicWindowMax(nums, k) *)

RECURSIVE EvictLoopLate(_, _, _, _)
EvictLoopLate(deque, ss, i, k) ==
    IF Len(deque) > 0 /\ deque[1] < i - k
    THEN EvictLoopLate(Tail(deque),
                       Append(ss, [step |-> StepNo(ss), index |-> i,
                                   action |-> "evict out-of-window index",
                                   removedIndex |-> deque[1], deque |-> Tail(deque)]),
                       i, k)
    ELSE [deque |-> deque, steps |-> ss]

\* while (deque.length > 0 && deque[0] <= i - k) deque.shift()
RECURSIVE EvictLoop(_, _, _, _)
EvictLoop(deque, ss, i, k) ==
    IF Len(deque) > 0 /\ deque[1] <= i - k
    THEN EvictLoop(Tail(deque),
                   Append(ss, [step |-> StepNo(ss), index |-> i,
                               action |-> "evict out-of-window index",
                               removedIndex |-> deque[1], deque |-> Tail(deque)]),
                   i, k)
    ELSE [deque |-> deque, steps |-> ss]

\* while (deque.length > 0 && nums[deque[deque.length - 1]] <= nums[i]) deque.pop()
RECURSIVE PopLoop(_, _, _, _)
PopLoop(deque, ss, i, nums) ==
    IF Len(deque) > 0 /\ At(nums, deque[Len(deque)]) <= At(nums, i)
    THEN LET rest == SubSeq(deque, 1, Len(deque) - 1) IN
         PopLoop(rest,
                 Append(ss, [step |-> StepNo(ss), index |-> i,
                             action |-> "pop smaller tail index",
                             removedIndex |-> deque[Len(deque)], deque |-> rest]),
                 i, nums)
    ELSE [deque |-> deque, steps |-> ss]

InitMonotonicWindowMax ==
    /\ sim = "monotonic_queue"
    /\ pc = "start"
    /\ input \in {[nums |-> s, k |-> k] : s \in NumSeqs, k \in -1..MaxLen}
    /\ mem = [i |-> 0, deque |-> <<>>, out |-> <<>>]
    /\ StartState

MonotonicWindowMaxInvalid ==
    /\ sim = "monotonic_queue" /\ pc = "start"
    /\ input.k <= 0
    /\ steps' = <<[step |-> 0, action |-> "invalid k: must be > 0"]>>
    /\ result' = <<>>
    /\ pc' = "done"
    /\ UNCHANGED <<sim, earlier, input, mem, store>>

MonotonicWindowMaxEmpty ==
    /\ sim = "monotonic_queue" /\ pc = "start"
    /\ ~(input.k <= 0)
    /\ Len(input.nums) = 0
    /\ steps' = <<[step |-> 0, action |-> "empty input"]>>
    /\ result' = <<>>
    /\ pc' = "done"
    /\ UNCHANGED <<sim, earlier, input, mem, store>>

\* one iteration of the for loop over i
MonotonicWindowMaxIndex ==
    /\ sim = "monotonic_queue" /\ pc \in {"start", "loop"}
    /\ ~(input.k <= 0) /\ Len(input.nums) # 0
    /\ mem.i < Len(input.nums)
    /\ LET i == mem.i
           ev == EvictLoop(mem.deque, steps, i, input.k)
           pp == PopLoop(ev.deque, ev.steps, i, input.nums)
           deque == Append(pp.deque, i)
           s1 == Append(pp.steps, [step |-> StepNo(pp.steps), index |-> i,
                                   action |-> "push current index", deque |-> deque,
                                   dequeValues |-> [j \in DOMAIN deque |-> At(input.nums, deque[j])]])
           maxValue == At(input.nums, deque[1])
           out == Append(mem.out, maxValue)
       IN IF i >= input.k - 1
          THEN /\ steps' = Append(s1, [step |-> StepNo(s1), index |-> i,
                                       action |-> "emit window max", windowEnd |-> i,
                                       maxValue |-> maxValue, output |-> out])
               /\ mem' = [i |-> i + 1, deque |-> deque, out |-> out]
          ELSE /\ steps' = s1
               /\ mem' = [i |-> i + 1, deque |-> deque, out |-> mem.out]
    /\ pc' = "loop"
    /\ UNCHANGED <<sim, earlier, input, result, store>>

MonotonicWindowMaxReturn ==
    /\ sim = "monotonic_queue" /\ pc = "loop"
    /\ mem.i >= Len(input.nums)
    /\ result' = mem.out
    /\ pc' = "done"
    /\ UNCHANGED <<sim, earlier, input, mem, steps, store>>

NextMonotonicWindowMax ==
    \/ MonotonicWindowMaxInvalid
    \/ MonotonicWindowMaxEmpty
    \/ MonotonicWindowMaxIndex
    \/ MonotonicWindowMaxReturn

----------------------------------------------------------------------------
(* simulateIntervalsMerge(intervals) *)

MaxIntervals == 3

\* intervals as parseIntervals yields them: first <= second
Pairs == {<<a, b>> : a \in Vals, b \in Vals} 
Intervals == {p \in Pairs : p[1] <= p[2]}
IntervalLists == SeqsUpTo(Intervals, MaxIntervals)

\* comparator (a, b) => (a[0] - b[0]) || (a[1] - b[1]) is <= 0
LeStartEnd(a, b) == a[1] < b[1] \/ (a[1] = b[1] /\ a[2] <= b[2])

\* Array.prototype.sort is stable: x goes behind the entries that compare <= x
RECURSIVE InsertStartEnd(_, _)
InsertStartEnd(x, s) ==
    IF s = <<>> THEN <<x>>
    ELSE IF LeStartEnd(Head(s), x) THEN <<Head(s)>> \o InsertStartEnd(x, Tail(s))
    ELSE <<x>> \o s

RECURSIVE SortStartEnd(_)
SortStartEnd(s) ==
    IF s = <<>> THEN <<>>
    ELSE InsertStartEnd(s[Len(s)], SortStartEnd(SubSeq(s, 1, Len(s) - 1)))

\* the arrays a list of addresses points to, as a reader of the snapshot sees them
Deref(st, refs) == [j \in DOMAIN refs |-> st[refs[j]]]

InitIntervalsMerge ==
    /\ sim = "intervals"
    /\ pc = "start"
    /\ input \in {[intervals |-> s] : s \in IntervalLists}
    /\ mem = [i |-> 0, sorted |-> <<>>, merged |-> <<>>]
    /\ StartState

IntervalsMergeEmpty ==
    /\ sim = "intervals" /\ pc = "start"
    /\ Len(input.intervals) = 0
    /\ steps' = <<[step |-> 0, action |-> "empty intervals"]>>
    /\ result' = <<>>
    /\ pc' = "done"
    /\ UNCHANGED <<sim, earlier, input, mem, store>>

IntervalsMergeSort ==
    /\ sim = "intervals" /\ pc = "start"
    /\ Len(input.intervals) # 0
    /\ LET sorted == SortStartEnd(input.intervals) IN
       /\ steps' = Append(steps, [step |-> 0, action |-> "sort intervals", sorted |-> sorted])
       /\ mem' = [mem EXCEPT !.sorted = sorted]
    /\ pc' = "sweep"
    /\ UNCHANGED <<sim, earlier, input, result, store>>

IntervalsMergeSweepWidens ==
    /\ sim = "intervals" /\ pc = "sweep"
    /\ mem.i < Len(mem.sorted)
    /\ LET s == At(mem.sorted, mem.i)[1]
           e == At(mem.sorted, mem.i)[2]
           m == Len(mem.merged)
           last == mem.merged[m]
       IN IF m = 0 \/ store[last][2] < s
          THEN LET addr == Len(store) + 1
                   merged == Append(mem.merged, addr)
               IN /\ store' = Append(store, <<s, e + 1>>)
                  /\ mem' = [mem EXCEPT !.merged = merged, !.i = @ + 1]
                  /\ steps' = Append(steps, [step |-> StepNo(steps),
                                             action |-> "start new interval",
                                             current |-> <<s, e>>, merged |-> merged])
          ELSE /\ store' = [store EXCEPT ![last][2] = Max2(@, e)]
               /\ mem' = [mem EXCEPT !.i = @ + 1]
               /\ steps' = Append(steps, [step |-> StepNo(steps), action |-> "merge overlap",
                                          current |-> <<s, e>>, merged |-> mem.merged])
    /\ UNCHANGED <<sim, earlier, pc, input, result>>

IntervalsMergeSweepKeepsTouching ==
    /\ sim = "intervals" /\ pc = "sweep"
    /\ mem.i < Len(mem.sorted)
    /\ LET s == At(mem.sorted, mem.i)[1]
           e == At(mem.sorted, mem.i)[2]
           m == Len(mem.merged)
           last == mem.merged[m]
       IN IF m = 0 \/ store[last][2] <= s
          THEN LET addr == Len(store) + 1
                   merged == Append(mem.merged, addr)
               IN /\ store' = Append(store, <<s, e>>)
                  /\ mem' = [mem EXCEPT !.merged = merged, !.i = @ + 1]
                  /\ steps' = Append(steps, [step |-> StepNo(steps),
                                             action |-> "start new interval",
                                             current |-> <<s, e>>, merged |-> merged])
          ELSE /\ store' = [store EXCEPT ![last][2] = Max2(@, e)]
               /\ mem' = [mem EXCEPT !.i = @ + 1]
               /\ steps' = Append(steps, [step |-> StepNo(steps), action |-> "merge overlap",
                                          current |-> <<s, e>>, merged |-> mem.merged])
    /\ UNCHANGED <<sim, earlier, pc, input, result>>

\* one iteration of the sweep.  merged.push([s, e]) allocates a new inner array;
\* [...merged] copies the addresses, and the else branch writes merged[last][1]
\* in place.
IntervalsMergeSweep ==
    /\ sim = "intervals" /\ pc = "sweep"
    /\ mem.i < Len(mem.sorted)
    /\ LET s == At(mem.sorted, mem.i)[1]
           e == At(mem.sorted, mem.i)[2]
           m == Len(mem.merged)
           last == mem.merged[m]
       IN IF m = 0 \/ store[last][2] < s
          THEN LET addr == Len(store) + 1
                   merged == Append(mem.merged, addr)
               IN /\ store' = Append(store, <<s, e>>)
                  /\ mem' = [mem EXCEPT !.merged = merged, !.i = @ + 1]
                  /\ steps' = Append(steps, [step |-> StepNo(steps),
                                             action |-> "start new interval",
                                             current |-> <<s, e>>, merged |-> merged])
          ELSE /\ store' = [store EXCEPT ![last][2] = Max2(@, e)]
               /\ mem' = [mem EXCEPT !.i = @ + 1]
               /\ steps' = Append(steps, [step |-> StepNo(steps), action |-> "merge overlap",
                                          current |-> <<s, e>>, merged |-> mem.merged])
    /\ UNCHANGED <<sim, earlier, pc, input, result>>

IntervalsMergeReturn ==
    /\ sim = "intervals" /\ pc = "sweep"
    /\ mem.i >= Len(mem.sorted)
    /\ result' = mem.merged
    /\ pc' = "done"
    /\ UNCHANGED <<sim, earlier, input, mem, steps, store>>

NextIntervalsMerge ==
    IntervalsMergeEmpty \/ IntervalsMergeSort \/ IntervalsMergeSweep \/ IntervalsMergeReturn

\* A caller passes the returned list to simulateIntervalsMerge again.  The new
\* call starts from fresh locals; the arrays of the first call stay on the heap.
\* mem remembers the first call's argument and what its result showed.
IntervalsMergeAgain ==
    /\ sim = "intervals" /\ pc = "done"
    /\ "first" \notin DOMAIN mem
    /\ input' = [intervals |-> Deref(store, result)]
    /\ mem' = [i |-> 0, sorted |-> <<>>, merged |-> <<>>,
               given |-> input.intervals, first |-> Deref(store, result)]
    /\ steps' = <<>>
    /\ result' = Null
    /\ pc' = "start"
    /\ UNCHANGED <<sim, earlier, store>>

----------------------------------------------------------------------------
(* simulateGreedyIntervalScheduling(intervals) *)

LeEndStartByStart(a, b) == a[1] < b[1] \/ (a[1] = b[1] /\ a[2] <= b[2])

\* comparator (a, b) => (a[1] - b[1]) || (a[0] - b[0]) is <= 0
LeEndStart(a, b) == a[2] < b[2] \/ (a[2] = b[2] /\ a[1] <= b[1])

RECURSIVE InsertEndStart(_, _)
InsertEndStart(x, s) ==
    IF s = <<>> THEN <<x>>
    ELSE IF LeEndStart(Head(s), x) THEN <<Head(s)>> \o InsertEndStart(x, Tail(s))
    ELSE <<x>> \o s

RECURSIVE SortEndStart(_)
SortEndStart(s) ==
    IF s = <<>> THEN <<>>
    ELSE InsertEndStart(s[Len(s)], SortEndStart(SubSeq(s, 1, Len(s) - 1)))

\* the 'Activity selection' preset
PresetActivity == <<<<1, 4>>, <<3, 5>>, <<0, 6>>, <<5, 7>>, <<8, 9>>, <<5, 9>>>>

InitGreedyIntervalScheduling ==
    /\ sim = "greedy"
    /\ pc = "start"
    /\ input \in {[intervals |-> s] : s \in IntervalLists \cup {PresetActivity}}
    /\ mem = [i |-> 0, sorted |-> <<>>, selected |-> <<>>, lastEnd |-> Null]
    /\ StartState

GreedyEmpty ==
    /\ sim = "greedy" /\ pc = "start"
    /\ Len(input.intervals) = 0
    /\ steps' = <<[step |-> 0, action |-> "empty intervals"]>>
    /\ result' = <<>>
    /\ pc' = "done"
    /\ UNCHANGED <<sim, earlier, input, mem, store>>

GreedySort ==
    /\ sim = "greedy" /\ pc = "start"
    /\ Len(input.intervals) # 0
    /\ LET sorted == SortEndStart(input.intervals) IN
       /\ steps' = Append(steps, [step |-> StepNo(steps), action |-> "sort by end time",
                                  sorted |-> sorted])
       /\ mem' = [mem EXCEPT !.sorted = sorted]
    /\ pc' = "sweep"
    /\ UNCHANGED <<sim, earlier, input, result, store>>

\* one callback of sorted.forEach; lastEnd starts at -Infinity (Null)
GreedyConsider ==
    /\ sim = "greedy" /\ pc = "sweep"
    /\ mem.i < Len(mem.sorted)
    /\ LET s == At(mem.sorted, mem.i)[1]
           e == At(mem.sorted, mem.i)[2]
       IN IF mem.lastEnd = Null \/ s >= mem.lastEnd[1]
          THEN LET selected == Append(mem.selected, <<s, e>>) IN
               /\ mem' = [mem EXCEPT !.selected = selected, !.lastEnd = Some(e), !.i = @ + 1]
               /\ steps' = Append(steps, [step |-> StepNo(steps), action |-> "select interval",
                                          current |-> <<s, e>>, selected |-> selected])
          ELSE /\ mem' = [mem EXCEPT !.i = @ + 1]
               /\ steps' = Append(steps, [step |-> StepNo(steps),
                                          action |-> "skip overlapping interval",
                                          current |-> <<s, e>>, lastEnd |-> mem.lastEnd])
    /\ UNCHANGED <<sim, earlier, pc, input, result, store>>

GreedyReturn ==
    /\ sim = "greedy" /\ pc = "sweep"
    /\ mem.i >= Len(mem.sorted)
    /\ result' = mem.selected
    /\ pc' = "done"
    /\ UNCHANGED <<sim, earlier, input, mem, steps, store>>

NextGreedyIntervalScheduling == GreedyEmpty \/ GreedySort \/ GreedyConsider \/ GreedyReturn

----------------------------------------------------------------------------
(* simulatePrefixDifference(nums, updates, queryL, queryR) *)

MaxShort == 2
MaxUpdates == 2

ShortSeqs == SeqsUpTo(Vals, MaxShort)
Deltas == {-1, 2}

clampIndex(x, n) == IF n <= 0 THEN 0 ELSE Max2(0, Min2(n - 1, x))

Zeros(n) == [j \in 1..n |-> 0]

\* The updates and the query are drawn when the code first reads them; `input`
\* records them.  Updates are as parseRangeUpdates yields them: l <= r.
InitPrefixDifference ==
    /\ sim = "prefix_difference"
    /\ pc = "start"
    /\ input \in {[nums |-> s, updates |-> <<>>, queryL |-> 0, queryR |-> 0] : s \in ShortSeqs}
    /\ mem = [diff |-> Zeros(Len(input.nums) + 1), i |-> 0, j |-> 0, runningDelta |-> 0,
              adjusted |-> Zeros(Len(input.nums)), prefix |-> Zeros(Len(input.nums))]
    /\ StartState

PrefixDifferenceEmpty ==
    /\ sim = "prefix_difference" /\ pc = "start"
    /\ Len(input.nums) = 0
    /\ steps' = <<[step |-> 0, action |-> "empty input"]>>
    /\ result' = 0
    /\ pc' = "done"
    /\ UNCHANGED <<sim, earlier, input, mem, store>>

\* one callback of updates.forEach
PrefixDifferenceUpdate ==
    /\ sim = "prefix_difference" /\ pc \in {"start", "updates"}
    /\ Len(input.nums) # 0
    /\ Len(input.updates) < MaxUpdates
    /\ \E rawL \in -1..Len(input.nums), rawR \in -1..Len(input.nums), delta \in Deltas :
          /\ rawL <= rawR
          /\ NextArgument(input.updates, Given.updates, <<rawL, rawR, delta>>)
          /\ LET n == Len(input.nums)
                 l == clampIndex(rawL, n)
                 r == clampIndex(rawR, n)
                 left == Min2(l, r)
                 right == Max2(l, r)
                 d1 == [mem.diff EXCEPT ![left + 1] = @ + delta]
                 d2 == IF right + 1 < Len(d1) THEN [d1 EXCEPT ![right + 2] = @ - delta] ELSE d1
             IN /\ mem' = [mem EXCEPT !.diff = d2]
                /\ steps' = Append(steps, [step |-> StepNo(steps), action |-> "apply diff update",
                                           updateIndex |-> Len(input.updates),
                                           update |-> <<left, right, delta>>,
                                           diff |-> SubSeq(d2, 1, n)])
                /\ input' = [input EXCEPT !.updates = Append(@, <<rawL, rawR, delta>>)]
    /\ pc' = "updates"
    /\ UNCHANGED <<sim, earlier, result, store>>

PrefixDifferenceRebuild ==
    /\ sim = "prefix_difference" /\ pc \in {"start", "updates", "rebuild"}
    /\ input.updates = Given.updates
    /\ mem.i < Len(input.nums)
    /\ LET runningDelta == mem.runningDelta + At(mem.diff, mem.i)
           adjusted == [mem.adjusted EXCEPT ![mem.i + 1] = At(input.nums, mem.i) + runningDelta]
       IN /\ mem' = [mem EXCEPT !.runningDelta = runningDelta, !.adjusted = adjusted, !.i = @ + 1]
          /\ steps' = Append(steps, [step |-> StepNo(steps), index |-> mem.i,
                                     action |-> "rebuild value from diff",
                                     runningDelta |-> runningDelta, adjusted |-> adjusted])
    /\ pc' = "rebuild"
    /\ UNCHANGED <<sim, earlier, input, result, store>>

PrefixDifferencePrefix ==
    /\ sim = "prefix_difference" /\ pc \in {"rebuild", "prefix"}
    /\ mem.i >= Len(input.nums)
    /\ mem.j < Len(input.nums)
    /\ LET prefix == [mem.prefix EXCEPT ![mem.j + 1] =
                         At(mem.adjusted, mem.j) + (IF mem.j > 0 THEN At(mem.prefix, mem.j - 1) ELSE 0)]
       IN /\ mem' = [mem EXCEPT !.prefix = prefix, !.j = @ + 1]
          /\ steps' = Append(steps, [step |-> StepNo(steps), index |-> mem.j,
                                     action |-> "build prefix", prefix |-> prefix])
    /\ pc' = "prefix"
    /\ UNCHANGED <<sim, earlier, input, result, store>>

PrefixDifferenceAnswer ==
    /\ sim = "prefix_difference" /\ pc = "prefix"
    /\ mem.j >= Len(input.nums)
    /\ \E queryL \in -1..Len(input.nums), queryR \in -1..Len(input.nums) :
          LET n == Len(input.nums)
              l == clampIndex(Min2(queryL, queryR), n)
              r == clampIndex(Max2(queryL, queryR), n)
              rangeSum == At(mem.prefix, r) - (IF l > 0 THEN At(mem.prefix, l - 1) ELSE 0)
          IN /\ LastArgument(input.updates, Given.updates, <<queryL, queryR>>,
                             <<Given.queryL, Given.queryR>>)
             /\ steps' = Append(steps, [step |-> StepNo(steps), action |-> "answer range query",
                                        query |-> <<l, r>>, rangeSum |-> rangeSum])
             /\ result' = [adjusted |-> mem.adjusted, prefix |-> mem.prefix,
                           query |-> <<l, r>>, rangeSum |-> rangeSum]
             /\ input' = [input EXCEPT !.queryL = queryL, !.queryR = queryR]
    /\ pc' = "done"
    /\ UNCHANGED <<sim, earlier, mem, store>>

NextPrefixDifference ==
    \/ PrefixDifferenceEmpty
    \/ PrefixDifferenceUpdate
    \/ PrefixDifferenceRebuild
    \/ PrefixDifferencePrefix
    \/ PrefixDifferenceAnswer

----------------------------------------------------------------------------
(* simulateBfsGrid({rows, cols, blocked, start}) *)

MaxDim == 2

\* `${r},${c}`
keyCell(r, c) == ToString(r) \o "," \o ToString(c)

GridCells(rows, cols) == {<<r, c>> : r \in 0..(rows - 1), c \in 0..(cols - 1)}

\* const dirs = [[1, 0], [-1, 0], [0, 1], [0, -1]]
dirs == << <<1, 0>>, <<-1, 0>>, <<0, 1>>, <<0, -1>> >>

InSeq(x, s) == \E j \in DOMAIN s : s[j] = x

\* queue.slice(head).map((x) => keyCell(x[0], x[1]))
Frontier(queue, head) ==
    [j \in 1..(Len(queue) - head) |-> keyCell(queue[head + j][1], queue[head + j][2])]

\* dirs.forEach from direction d on, for the dequeued cell (r, c);
\* st carries queue, visited (a Set, in insertion order) and steps
RECURSIVE BfsNeighbors(_, _, _, _, _, _)
BfsNeighbors(d, r, c, head, inp, st) ==
    IF d > Len(dirs) THEN st
    ELSE LET nr == r + dirs[d][1]
             nc == c + dirs[d][2]
             cell == keyCell(nr, nc)
         IN IF nr < 0 \/ nr >= inp.rows \/ nc < 0 \/ nc >= inp.cols
            THEN BfsNeighbors(d + 1, r, c, head, inp, st)
            ELSE IF cell \in inp.blocked \/ InSeq(cell, st.visited)
            THEN BfsNeighbors(d + 1, r, c, head, inp, st)
            ELSE LET visited == Append(st.visited, cell)
                     queue == Append(st.queue, <<nr, nc>>)
                 IN BfsNeighbors(d + 1, r, c, head, inp,
                        [visited |-> visited, queue |-> queue,
                         steps |-> Append(st.steps,
                             [step |-> StepNo(st.steps), node |-> <<nr, nc>>,
                              action |-> "enqueue neighbor",
                              queueSize |-> Len(queue) - head, visited |-> visited,
                              frontier |-> Frontier(queue, head)])])

InitBfsGrid ==
    /\ sim = "bfs"
    /\ pc = "start"
    /\ \E rows \in 0..MaxDim, cols \in 0..MaxDim :
          \E blockedCells \in SUBSET GridCells(rows, cols) :
             \E sr \in -1..rows, sc \in -1..cols :
                input = [rows |-> rows, cols |-> cols,
                         blocked |-> {keyCell(p[1], p[2]) : p \in blockedCells},
                         start |-> <<sr, sc>>]
    /\ mem = [queue |-> <<>>, head |-> 0, visited |-> <<>>]
    /\ StartState

BfsGridEmpty ==
    /\ sim = "bfs" /\ pc = "start"
    /\ (input.rows <= 0 \/ input.cols <= 0)
    /\ steps' = <<[step |-> 0, action |-> "empty grid"]>>
    /\ result' = 0
    /\ pc' = "done"
    /\ UNCHANGED <<sim, earlier, input, mem, store>>

BfsGridStartBlocked ==
    /\ sim = "bfs" /\ pc = "start"
    /\ ~(input.rows <= 0 \/ input.cols <= 0)
    /\ keyCell(input.start[1], input.start[2]) \in input.blocked
    /\ steps' = <<[step |-> 0, action |-> "start blocked"]>>
    /\ result' = 0
    /\ pc' = "done"
    /\ UNCHANGED <<sim, earlier, input, mem, store>>

BfsGridBegin ==
    /\ sim = "bfs" /\ pc = "start"
    /\ ~(input.rows <= 0 \/ input.cols <= 0)
    /\ keyCell(input.start[1], input.start[2]) \notin input.blocked
    /\ mem' = [queue |-> <<input.start>>, head |-> 0,
               visited |-> <<keyCell(input.start[1], input.start[2])>>]
    /\ pc' = "loop"
    /\ UNCHANGED <<sim, earlier, input, steps, result, store>>

\* one iteration of while (head < queue.length)
BfsGridDequeue ==
    /\ sim = "bfs" /\ pc = "loop"
    /\ mem.head < Len(mem.queue)
    /\ LET r == At(mem.queue, mem.head)[1]
           c == At(mem.queue, mem.head)[2]
           head == mem.head + 1
           s1 == Append(steps, [step |-> StepNo(steps), node |-> <<r, c>>, action |-> "dequeue",
                                queueSize |-> Len(mem.queue) - head, visited |-> mem.visited,
                                frontier |-> Frontier(mem.queue, head)])
           st == BfsNeighbors(1, r, c, head, input,
                              [visited |-> mem.visited, queue |-> mem.queue, steps |-> s1])
       IN /\ steps' = st.steps
          /\ mem' = [queue |-> st.queue, head |-> head, visited |-> st.visited]
    /\ UNCHANGED <<sim, earlier, pc, input, result, store>>

BfsGridReturn ==
    /\ sim = "bfs" /\ pc = "loop"
    /\ mem.head >= Len(mem.queue)
    /\ result' = Len(mem.visited)
    /\ pc' = "done"
    /\ UNCHANGED <<sim, earlier, input, mem, steps, store>>

NextBfsGrid ==
    BfsGridEmpty \/ BfsGridStartBlocked \/ BfsGridBegin \/ BfsGridDequeue \/ BfsGridReturn

----------------------------------------------------------------------------
(* Graph inputs *)

GraphNodes == 3
GraphEdges == 3

\* u >= 0 && u < nodeCount
InRange(u, nodeCount) == u >= 0 /\ u < nodeCount

\* edges over the nodes, and two edges with an endpoint outside [0, n)
EdgePairs(n) == {<<u, v>> : u \in 0..(n - 1), v \in 0..(n - 1)} \cup {<<-1, 0>>, <<0, n>>}

\* array.sort((a, b) => a - b) on an array with repeated values
RECURSIVE SortAscSeq(_)
SortAscSeq(s) ==
    IF s = <<>> THEN <<>>
    ELSE LET m == SetMin({s[i] : i \in DOMAIN s})
             j == CHOOSE j \in DOMAIN s : s[j] = m
         IN <<m>> \o SortAscSeq(RemoveAt(s, j))

----------------------------------------------------------------------------
(* simulateDfsGraph({nodeCount, edges, start}) *)

\* adj[u] after edges.forEach: adj[u].push(v); adj[v].push(u) for in-range edges
RECURSIVE AdjRowUndirected(_, _, _)
AdjRowUndirected(edges, u, n) ==
    IF edges = <<>> THEN <<>>
    ELSE LET e == Head(edges)
             ok == InRange(e[1], n) /\ InRange(e[2], n)
         IN (IF ok /\ e[1] = u THEN <<e[2]>> ELSE <<>>)
            \o (IF ok /\ e[2] = u THEN <<e[1]>> ELSE <<>>)
            \o AdjRowUndirected(Tail(edges), u, n)

DfsAdjUnsorted(n, edges) == [j \in 1..n |-> AdjRowUndirected(edges, j - 1, n)]

\* adj after adj.forEach((row) => row.sort((a, b) => a - b)); node u is entry u + 1
DfsAdj(n, edges) == [j \in 1..n |-> SortAscSeq(AdjRowUndirected(edges, j - 1, n))]

InitDfsGraph ==
    /\ sim = "dfs"
    /\ pc = "start"
    /\ \E n \in 0..GraphNodes :
          \E edges \in SeqsUpTo(EdgePairs(n), GraphEdges), start \in -1..n :
             input = [nodeCount |-> n, edges |-> edges, start |-> start]
    /\ mem = [adj |-> DfsAdj(input.nodeCount, input.edges), seen |-> {}, stack |-> <<>>]
    /\ StartState

DfsGraphInvalidStart ==
    /\ sim = "dfs" /\ pc = "start"
    /\ (input.start < 0 \/ input.start >= input.nodeCount)
    /\ steps' = <<[step |-> 0, action |-> "invalid start node"]>>
    /\ result' = 0
    /\ pc' = "done"
    /\ UNCHANGED <<sim, earlier, input, mem, store>>

\* dfs(start, 0) up to its first step
DfsGraphEnterStart ==
    /\ sim = "dfs" /\ pc = "start"
    /\ ~(input.start < 0 \/ input.start >= input.nodeCount)
    /\ LET seen == mem.seen \cup {input.start} IN
       /\ mem' = [mem EXCEPT !.seen = seen,
                             !.stack = <<[u |-> input.start, depth |-> 0, j |-> 0]>>]
       /\ steps' = Append(steps, [step |-> StepNo(steps), node |-> input.start, depth |-> 0,
                                  action |-> "enter node", seen |-> SortAsc(seen)])
    /\ pc' = "run"
    /\ UNCHANGED <<sim, earlier, input, result, store>>

\* positions >= j of adj[u] whose node is not seen yet
DfsPending(f) == {j \in f.j..(Len(mem.adj[f.u + 1]) - 1) : At(mem.adj[f.u + 1], j) \notin mem.seen}

\* adj[u].forEach reaches the next unseen neighbour v: 'go to neighbor', then
\* dfs(v, depth + 1) up to its first step
DfsGraphDescend ==
    /\ sim = "dfs" /\ pc = "run"
    /\ mem.stack # <<>>
    /\ LET d == Len(mem.stack)
           f == mem.stack[d]
       IN /\ DfsPending(f) # {}
          /\ LET j == SetMin(DfsPending(f))
                 v == At(mem.adj[f.u + 1], j)
                 s1 == Append(steps, [step |-> StepNo(steps), node |-> f.u, depth |-> f.depth,
                                      action |-> "go to neighbor " \o ToString(v),
                                      seen |-> SortAsc(mem.seen)])
                 seen == mem.seen \cup {v}
             IN /\ steps' = Append(s1, [step |-> StepNo(s1), node |-> v, depth |-> f.depth + 1,
                                        action |-> "enter node", seen |-> SortAsc(seen)])
                /\ mem' = [mem EXCEPT !.seen = seen,
                                      !.stack = Append([mem.stack EXCEPT ![d].j = j + 1],
                                                       [u |-> v, depth |-> f.depth + 1, j |-> 0])]
    /\ UNCHANGED <<sim, earlier, pc, input, result, store>>

\* adj[u].forEach finds no further unseen neighbour: 'backtrack' and return;
\* the return of dfs(start, 0) is followed by the simulator's return
DfsGraphBacktrack ==
    /\ sim = "dfs" /\ pc = "run"
    /\ mem.stack # <<>>
    /\ LET d == Len(mem.stack)
           f == mem.stack[d]
       IN /\ DfsPending(f) = {}
          /\ steps' = Append(steps, [step |-> StepNo(steps), node |-> f.u, depth |-> f.depth,
                                     action |-> "backtrack", seen |-> SortAsc(mem.seen)])
          /\ mem' = [mem EXCEPT !.stack = SubSeq(mem.stack, 1, d - 1)]
          /\ IF d = 1
             THEN /\ result' = Cardinality(mem.seen) /\ pc' = "done"
             ELSE UNCHANGED <<result, pc>>
    /\ UNCHANGED <<sim, earlier, input, store>>

NextDfsGraph ==
    DfsGraphInvalidStart \/ DfsGraphEnterStart \/ DfsGraphDescend \/ DfsGraphBacktrack

----------------------------------------------------------------------------
(* simulateTopologicalSort(nodeCount, edges) *)

\* adj[u] after edges.forEach: adj[u].push(v) for in-range edges, in edge order
RECURSIVE AdjRowDirected(_, _, _)
AdjRowDirected(edges, u, n) ==
    IF edges = <<>> THEN <<>>
    ELSE LET e == Head(edges)
             ok == InRange(e[1], n) /\ InRange(e[2], n)
         IN (IF ok /\ e[1] = u THEN <<e[2]>> ELSE <<>>) \o AdjRowDirected(Tail(edges), u, n)

InDegreeCountsOnce(edges, v, n) ==
    IF \E j \in DOMAIN edges : InRange(edges[j][1], n) /\ edges[j][2] = v THEN 1 ELSE 0

\* inDeg[v] after edges.forEach
RECURSIVE InDegree(_, _, _)
InDegree(edges, v, n) ==
    IF edges = <<>> THEN 0
    ELSE LET e == Head(edges)
             ok == InRange(e[1], n) /\ InRange(e[2], n)
         IN (IF ok /\ e[2] = v THEN 1 ELSE 0) + InDegree(Tail(edges), v, n)

ZeroInDegreeAll(inDeg, i) == [j \in 1..(Len(inDeg) - i) |-> i + j - 1]

\* for (let i = 0; i < nodeCount; i += 1) if (inDeg[i] === 0) queue.push(i)
RECURSIVE ZeroInDegree(_, _)
ZeroInDegree(inDeg, i) ==
    IF i >= Len(inDeg) THEN <<>>
    ELSE (IF At(inDeg, i) = 0 THEN <<i>> ELSE <<>>) \o ZeroInDegree(inDeg, i + 1)

\* adj[u].forEach from position j on; st carries inDeg, queue and steps
RECURSIVE TopoRelax(_, _, _, _, _)
TopoRelax(row, j, u, head, st) ==
    IF j > Len(row) THEN st
    ELSE LET v == row[j]
             inDeg == [st.inDeg EXCEPT ![v + 1] = @ - 1]
             s1 == Append(st.steps, [step |-> StepNo(st.steps), action |-> "decrement indegree",
                                     from |-> u, to |-> v, inDeg |-> inDeg])
             queue == Append(st.queue, v)
         IN IF inDeg[v + 1] = 0
            THEN TopoRelax(row, j + 1, u, head,
                     [inDeg |-> inDeg, queue |-> queue,
                      steps |-> Append(s1, [step |-> StepNo(s1),
                                            action |-> "enqueue new zero-indegree node",
                                            node |-> v,
                                            queue |-> SubSeq(queue, head + 1, Len(queue))])])
            ELSE TopoRelax(row, j + 1, u, head,
                     [inDeg |-> inDeg, queue |-> st.queue, steps |-> s1])

\* the 'Cycle detection case' preset
PresetCycle == [nodeCount |-> 4, edges |-> <<<<0, 1>>, <<1, 2>>, <<2, 0>>, <<2, 3>>>>]

InitTopologicalSort ==
    /\ sim = "topological_sort"
    /\ pc = "start"
    /\ \/ \E n \in 0..GraphNodes :
             \E edges \in SeqsUpTo(EdgePairs(n), GraphEdges) :
                input = [nodeCount |-> n, edges |-> edges]
       \/ input = PresetCycle
    /\ mem = [adj |-> <<>>, inDeg |-> <<>>, queue |-> <<>>, head |-> 0, order |-> <<>>]
    /\ StartState

TopologicalSortEmpty ==
    /\ sim = "topological_sort" /\ pc = "start"
    /\ input.nodeCount <= 0
    /\ steps' = <<[step |-> 0, action |-> "empty graph"]>>
    /\ result' = <<>>
    /\ pc' = "done"
    /\ UNCHANGED <<sim, earlier, input, mem, store>>

TopologicalSortInit ==
    /\ sim = "topological_sort" /\ pc = "start"
    /\ ~(input.nodeCount <= 0)
    /\ LET n == input.nodeCount
           adj == [j \in 1..n |-> AdjRowDirected(input.edges, j - 1, n)]
           inDeg == [j \in 1..n |-> InDegree(input.edges, j - 1, n)]
           queue == ZeroInDegree(inDeg, 0)
       IN /\ mem' = [adj |-> adj, inDeg |-> inDeg, queue |-> queue, head |-> 0, order |-> <<>>]
          /\ steps' = Append(steps, [step |-> StepNo(steps),
                                     action |-> "initialize indegree and queue",
                                     inDeg |-> inDeg, queue |-> queue])
    /\ pc' = "loop"
    /\ UNCHANGED <<sim, earlier, input, result, store>>

\* one iteration of while (head < queue.length)
TopologicalSortPop ==
    /\ sim = "topological_sort" /\ pc = "loop"
    /\ mem.head < Len(mem.queue)
    /\ LET u == At(mem.queue, mem.head)
           head == mem.head + 1
           order == Append(mem.order, u)
           s1 == Append(steps, [step |-> StepNo(steps), action |-> "pop zero-indegree node",
                                node |-> u, order |-> order,
                                queue |-> SubSeq(mem.queue, head + 1, Len(mem.queue))])
           st == TopoRelax(mem.adj[u + 1], 1, u, head,
                           [inDeg |-> mem.inDeg, queue |-> mem.queue, steps |-> s1])
       IN /\ steps' = st.steps
          /\ mem' = [mem EXCEPT !.inDeg = st.inDeg, !.queue = st.queue, !.head = head,
                                !.order = order]
    /\ UNCHANGED <<sim, earlier, pc, input, result, store>>

TopologicalSortFinish ==
    /\ sim = "topological_sort" /\ pc = "loop"
    /\ mem.head >= Len(mem.queue)
    /\ IF Len(mem.order) # input.nodeCount
       THEN /\ steps' = Append(steps, [step |-> StepNo(steps),
                                       action |-> "cycle detected: topo order incomplete",
                                       order |-> mem.order])
            /\ result' = [order |-> mem.order, hasCycle |-> TRUE]
       ELSE /\ result' = [order |-> mem.order, hasCycle |-> FALSE]
            /\ UNCHANGED steps
    /\ pc' = "done"
    /\ UNCHANGED <<sim, earlier, input, mem, store>>

NextTopologicalSort ==
    \/ TopologicalSortEmpty
    \/ TopologicalSortInit
    \/ TopologicalSortPop
    \/ TopologicalSortFinish

----------------------------------------------------------------------------
(* simulateUnionFind(nodeCount, edges, queryA, queryB) *)

UFNodes == 4
UFEdges == 4

\* Number.parseInt of an empty token, and the element a one-token part leaves
\* out of the pair: the two values of an endpoint that parseEdges did not read
NaN == -98
undefined == -99

IsNumber(x) == x # NaN /\ x # undefined

\* a < b and a >= b: false as soon as one side is NaN or undefined
Less(a, b) == IsNumber(a) /\ IsNumber(b) /\ a < b
AtLeast(a, b) == IsNumber(a) /\ IsNumber(b) /\ a >= b

\* a === b: NaN equals nothing, itself included
StrictEq(a, b) == a # NaN /\ a = b

\* arr[key]: an element of the array, a property set earlier under the key
\* NaN or undefined, or undefined when nothing is there
Prop(arr, key) == IF key + 1 \in DOMAIN arr THEN arr[key + 1] ELSE undefined

\* arr[key] = value
Put(arr, key, value) ==
    IF key + 1 \in DOMAIN arr THEN [arr EXCEPT ![key + 1] = value]
    ELSE ((key + 1) :> value) @@ arr

\* [...arr]: the n elements, without the properties
Spread(arr, n) == [j \in 1..n |-> arr[j]]

\* the closure find(x): path halving, from cur on; yields the root and the
\* parent array it leaves behind
RECURSIVE find(_, _)
find(parent, cur) ==
    IF ~StrictEq(Prop(parent, cur), cur)
    THEN LET halved == Put(parent, cur, Prop(parent, Prop(parent, cur)))
         IN find(halved, Prop(halved, cur))
    ELSE [root |-> cur, parent |-> parent]

\* the body of union(a, b) behind the two find calls: ra and rb are the roots
unionRoots(parent, rank, rootA, rootB) ==
    IF StrictEq(rootA, rootB)
    THEN [merged |-> FALSE, parent |-> parent, rank |-> rank]
    ELSE LET swap == Less(Prop(rank, rootA), Prop(rank, rootB))
             ra == IF swap THEN rootB ELSE rootA
             rb == IF swap THEN rootA ELSE rootB
         IN [merged |-> TRUE, parent |-> Put(parent, rb, ra),
             rank |-> IF StrictEq(Prop(rank, ra), Prop(rank, rb))
                      THEN Put(rank, ra, Prop(rank, ra) + 1) ELSE rank]

\* the closure union(a, b) on the given parent and rank arrays
unionNoLink(parent, rank, a, b) ==
    LET fa == find(parent, a)
        fb == find(fa.parent, b)
    IN [merged |-> fa.root # fb.root, parent |-> fb.parent, rank |-> rank]
unionBumpsRank(parent, rank, a, b) ==
    LET fa == find(parent, a)
        fb == find(fa.parent, b)
        un == unionRoots(fb.parent, rank, fa.root, fb.root)
    IN IF fa.root = fb.root
       THEN [un EXCEPT !.rank = [rank EXCEPT ![fa.root + 1] = @ + 1]]
       ELSE un
union(parent, rank, a, b) ==
    LET fa == find(parent, a)
        fb == find(fa.parent, b)
    IN unionRoots(fb.parent, rank, fa.root, fb.root)

\* every edge between two different nodes in both orientations, one self-loop,
\* and two edges with an endpoint outside [0, n)
UnionFindEdges(n) ==
    {e \in EdgePairs(n) : e[1] # e[2]} \cup {<<0, 0>>}

\* the edges parseEdges yields for parts with a missing endpoint: "0-" and
\* "-0" give NaN for the empty token, "0" alone leaves the second undefined
ParsedEdges(n) ==
    {<<0, NaN>>, <<NaN, n - 1>>, <<n - 1, undefined>>, <<NaN, NaN>>}

\* The edges and the query are drawn when the code first reads them; `input`
\* records them.
InitUnionFind ==
    /\ sim = "union_find"
    /\ pc = "start"
    /\ input \in {[nodeCount |-> n, edges |-> <<>>, queryA |-> 0, queryB |-> 0] : n \in 0..UFNodes}
    /\ mem = [parent |-> [j \in 1..input.nodeCount |-> j - 1], rank |-> Zeros(input.nodeCount)]
    /\ StartState

UnionFindEmpty ==
    /\ sim = "union_find" /\ pc = "start"
    /\ input.nodeCount <= 0
    /\ steps' = <<[step |-> 0, action |-> "empty node set"]>>
    /\ result' = FALSE
    /\ pc' = "done"
    /\ UNCHANGED <<sim, earlier, input, mem, store>>

\* the callback of edges.forEach on the edge e
UnionFindEdgeCallback(e) ==
    LET u == e[1]
        v == e[2]
        n == input.nodeCount
        un == union(mem.parent, mem.rank, u, v)
    IN /\ NextArgument(input.edges, Given.edges, e)
       /\ input' = [input EXCEPT !.edges = Append(@, e)]
       /\ IF Less(u, 0) \/ AtLeast(u, n) \/ Less(v, 0) \/ AtLeast(v, n)
          THEN UNCHANGED <<mem, steps>>
          ELSE /\ mem' = [parent |-> un.parent, rank |-> un.rank]
               /\ steps' = Append(steps, [step |-> StepNo(steps),
                                          edgeIndex |-> Len(input.edges), edge |-> <<u, v>>,
                                          action |-> IF un.merged THEN "union components"
                                                     ELSE "already connected",
                                          parent |-> Spread(un.parent, n),
                                          rank |-> Spread(un.rank, n)])

\* one callback of edges.forEach
UnionFindEdge ==
    /\ sim = "union_find" /\ pc \in {"start", "edges"}
    /\ ~(input.nodeCount <= 0)
    /\ Len(input.edges) < UFEdges
    /\ \E e \in UnionFindEdges(input.nodeCount) : UnionFindEdgeCallback(e)
    /\ pc' = "edges"
    /\ UNCHANGED <<sim, earlier, result, store>>

\* one callback of edges.forEach on an edge with an endpoint that was not read
UnionFindParsedEdge ==
    /\ sim = "union_find" /\ pc \in {"start", "edges"}
    /\ ~(input.nodeCount <= 0)
    /\ Len(input.edges) < UFEdges
    /\ \E e \in ParsedEdges(input.nodeCount) : UnionFindEdgeCallback(e)
    /\ pc' = "edges"
    /\ UNCHANGED <<sim, earlier, result, store>>

\* queries over the first and the last node, and one query for each way of
\* being out of range
QueryPairs(n) ==
    {<<a, b>> : a \in {0, n - 1}, b \in {0, n - 1}}
        \cup {<<-1, 0>>, <<n, 0>>, <<0, -1>>, <<0, n>>}

UnionFindInvalidQuery ==
    /\ sim = "union_find" /\ pc \in {"start", "edges"}
    /\ ~(input.nodeCount <= 0)
    /\ \E q \in QueryPairs(input.nodeCount) :
       LET queryA == q[1]
           queryB == q[2]
       IN /\ LastArgument(input.edges, Given.edges, q,
                          <<Given.queryA, Given.queryB>>)
          /\ (queryA < 0 \/ queryA >= input.nodeCount \/ queryB < 0 \/ queryB >= input.nodeCount)
          /\ input' = [input EXCEPT !.queryA = queryA, !.queryB = queryB]
          /\ steps' = Append(steps, [step |-> StepNo(steps), action |-> "invalid query nodes",
                                     query |-> <<queryA, queryB>>])
    /\ result' = FALSE
    /\ pc' = "done"
    /\ UNCHANGED <<sim, earlier, mem, store>>

UnionFindQuery ==
    /\ sim = "union_find" /\ pc \in {"start", "edges"}
    /\ ~(input.nodeCount <= 0)
    /\ \E q \in QueryPairs(input.nodeCount) :
       LET queryA == q[1]
           queryB == q[2]
       IN /\ LastArgument(input.edges, Given.edges, q,
                          <<Given.queryA, Given.queryB>>)
          /\ ~(queryA < 0 \/ queryA >= input.nodeCount \/ queryB < 0 \/ queryB >= input.nodeCount)
          /\ LET fa == find(mem.parent, queryA)
                 fb == find(fa.parent, queryB)
                 connected == StrictEq(fa.root, fb.root)
             IN /\ input' = [input EXCEPT !.queryA = queryA, !.queryB = queryB]
                /\ mem' = [mem EXCEPT !.parent = fb.parent]
                /\ steps' = Append(steps, [step |-> StepNo(steps), action |-> "connectivity query",
                                           query |-> <<queryA, queryB>>, connected |-> connected,
                                           parent |-> Spread(fb.parent, input.nodeCount)])
                /\ result' = connected
    /\ pc' = "done"
    /\ UNCHANGED <<sim, earlier, store>>

NextUnionFind == UnionFindEmpty \/ UnionFindEdge \/ UnionFindInvalidQuery \/ UnionFindQuery

----------------------------------------------------------------------------
(* heapPushPair / heapPopPair and simulateDijkstra(nodeCount, edges, start) *)

\* the while loop of heapPushPair, from index i; pairs are <<distance, node>>
RECURSIVE SiftUpPair(_, _)
SiftUpPair(h, i) ==
    IF i > 0
    THEN LET p == (i - 1) \div 2 IN
         IF At(h, p)[1] <= At(h, i)[1] THEN h ELSE SiftUpPair(Swap(h, p, i), p)
    ELSE h

heapPushPair(heap, pair) == SiftUpPair(Append(heap, pair), Len(heap))

\* the while (true) loop of heapPopPair, from index i
RECURSIVE SiftDownPair(_, _)
SiftDownPair(h, i) ==
    LET left == i * 2 + 1
        right == i * 2 + 2
        s1 == IF left < Len(h) /\ At(h, left)[1] < At(h, i)[1] THEN left ELSE i
        smallest == IF right < Len(h) /\ At(h, right)[1] < At(h, s1)[1] THEN right ELSE s1
    IN IF smallest = i THEN h ELSE SiftDownPair(Swap(h, i, smallest), smallest)

\* called on a non-empty heap only: the popped root and the heap left behind
heapPopPair(heap) ==
    LET root == heap[1]
        last == heap[Len(heap)]
        rest == SubSeq(heap, 1, Len(heap) - 1)
    IN [root |-> root,
        heap |-> IF Len(rest) > 0 THEN SiftDownPair([rest EXCEPT ![1] = last], 0) ELSE rest]

Weights == {-1, 0, 1, 3}

\* The graph is undirected (every edge is pushed to both rows), so the edges
\* are drawn with u <= v: all pairs of different nodes, one self-loop, and one
\* edge with an endpoint outside [0, n).
WeightedEdges(n) ==
    {<<e[1], e[2], w>> : e \in {p \in EdgePairs(n) : p[1] < p[2] \/ p = <<0, 0>>}, w \in Weights}

RECURSIVE AdjRowWeightedOneWay(_, _, _)
AdjRowWeightedOneWay(edges, u, n) ==
    IF edges = <<>> THEN <<>>
    ELSE LET e == Head(edges)
             ok == InRange(e[1], n) /\ InRange(e[2], n) /\ e[3] >= 0
         IN (IF ok /\ e[1] = u THEN << <<e[2], e[3]>> >> ELSE <<>>)
            \o AdjRowWeightedOneWay(Tail(edges), u, n)

\* adj[u] after edges.forEach: pairs <<v, w>>, for in-range edges with w >= 0
RECURSIVE AdjRowWeighted(_, _, _)
AdjRowWeighted(edges, u, n) ==
    IF edges = <<>> THEN <<>>
    ELSE LET e == Head(edges)
             ok == InRange(e[1], n) /\ InRange(e[2], n) /\ e[3] >= 0
         IN (IF ok /\ e[1] = u THEN << <<e[2], e[3]>> >> ELSE <<>>)
            \o (IF ok /\ e[2] = u THEN << <<e[1], e[3]>> >> ELSE <<>>)
            \o AdjRowWeighted(Tail(edges), u, n)

LessThanDistOrEqual(next, dv) == dv = Null \/ next <= dv[1]

\* next < dist[v], where dist[v] may be Infinity (Null)
LessThanDist(next, dv) == dv = Null \/ next < dv[1]

\* adj[u].forEach from position j on; st carries dist, heap and steps
RECURSIVE DijkstraRelax(_, _, _, _, _)
DijkstraRelax(row, j, u, d, st) ==
    IF j > Len(row) THEN st
    ELSE LET v == row[j][1]
             w == row[j][2]
             next == d + w
             dist == [st.dist EXCEPT ![v + 1] = Some(next)]
         IN IF LessThanDist(next, At(st.dist, v))
            THEN DijkstraRelax(row, j + 1, u, d,
                     [dist |-> dist, heap |-> heapPushPair(st.heap, <<next, v>>),
                      steps |-> Append(st.steps,
                                       [step |-> StepNo(st.steps), action |-> "relax edge",
                                        from |-> u, to |-> v, weight |-> w, newDist |-> next,
                                        dist |-> dist])])
            ELSE DijkstraRelax(row, j + 1, u, d, st)

\* the 'Unreachable nodes' preset
PresetUnreachable ==
    [nodeCount |-> 7, edges |-> <<<<0, 1, 2>>, <<1, 2, 3>>, <<2, 3, 1>>, <<4, 5, 1>>>>, start |-> 0]

InitDijkstra ==
    /\ sim = "dijkstra"
    /\ pc = "start"
    /\ \/ \E n \in 0..GraphNodes :
             \E edges \in SeqsUpTo(WeightedEdges(n), GraphEdges), start \in -1..n :
                input = [nodeCount |-> n, edges |-> edges, start |-> start]
       \/ input = PresetUnreachable
    /\ mem = [adj |-> <<>>, dist |-> <<>>, heap |-> <<>>]
    /\ StartState

DijkstraEmptyGraph ==
    /\ sim = "dijkstra" /\ pc = "start"
    /\ input.nodeCount <= 0
    /\ steps' = <<[step |-> 0, action |-> "empty graph"]>>
    /\ result' = <<>>
    /\ pc' = "done"
    /\ UNCHANGED <<sim, earlier, input, mem, store>>

DijkstraInvalidStart ==
    /\ sim = "dijkstra" /\ pc = "start"
    /\ ~(input.nodeCount <= 0)
    /\ (input.start < 0 \/ input.start >= input.nodeCount)
    /\ steps' = <<[step |-> 0, action |-> "invalid start node"]>>
    /\ result' = <<>>
    /\ pc' = "done"
    /\ UNCHANGED <<sim, earlier, input, mem, store>>

DijkstraBegin ==
    /\ sim = "dijkstra" /\ pc = "start"
    /\ ~(input.nodeCount <= 0)
    /\ ~(input.start < 0 \/ input.start >= input.nodeCount)
    /\ LET n == input.nodeCount IN
       mem' = [adj |-> [j \in 1..n |-> AdjRowWeighted(input.edges, j - 1, n)],
               dist |-> [j \in 1..n |-> IF j - 1 = input.start THEN Some(0) ELSE Null],
               heap |-> << <<0, input.start>> >>]
    /\ pc' = "loop"
    /\ UNCHANGED <<sim, earlier, input, steps, result, store>>

\* one iteration of while (heap.length > 0)
DijkstraPop ==
    /\ sim = "dijkstra" /\ pc = "loop"
    /\ Len(mem.heap) > 0
    /\ LET popped == heapPopPair(mem.heap)
           d == popped.root[1]
           u == popped.root[2]
       IN IF Some(d) # At(mem.dist, u)
          THEN /\ steps' = Append(steps, [step |-> StepNo(steps), action |-> "skip stale heap entry",
                                          node |-> u, poppedDist |-> d,
                                          currentDist |-> At(mem.dist, u)])
               /\ mem' = [mem EXCEPT !.heap = popped.heap]
          ELSE LET s1 == Append(steps, [step |-> StepNo(steps), action |-> "finalize node",
                                        node |-> u, dist |-> mem.dist])
                   st == DijkstraRelax(mem.adj[u + 1], 1, u, d,
                                       [dist |-> mem.dist, heap |-> popped.heap, steps |-> s1])
               IN /\ steps' = st.steps
                  /\ mem' = [mem EXCEPT !.dist = st.dist, !.heap = st.heap]
    /\ UNCHANGED <<sim, earlier, pc, input, result, store>>

\* dist.map((x) => (Number.isFinite(x) ? x : null))
DijkstraReturn ==
    /\ sim = "dijkstra" /\ pc = "loop"
    /\ ~(Len(mem.heap) > 0)
    /\ result' = mem.dist
    /\ pc' = "done"
    /\ UNCHANGED <<sim, earlier, input, mem, steps, store>>

NextDijkstra ==
    \/ DijkstraEmptyGraph
    \/ DijkstraInvalidStart
    \/ DijkstraBegin
    \/ DijkstraPop
    \/ DijkstraReturn

----------------------------------------------------------------------------
(* simulateBacktrackingSubsetSum(nums, target) *)

STEP_CAP == 700

\* an input whose search tree outgrows the cap: ten ones, target out of reach
CapLen == 10
CapNums == [j \in 1..CapLen |-> 1]
CapTarget == CapLen + 1

\* A frame of the recursive closure dfs: its arguments, and where it is
\* ("call": entered, "chosen": inside the include branch, "skipped": inside the
\* exclude branch).
BtFrame(idx, sum) == [idx |-> idx, sum |-> sum, at |-> "call"]

\* another one: ten twos, whose dead ends fall differently against the cap
CapTwos == [j \in 1..CapLen |-> 2]

InitBacktrackingSubsetSum ==
    /\ sim = "backtracking"
    /\ pc = "run"
    /\ input \in {[nums |-> s, target |-> t] : s \in NumSeqs, t \in -1..(2 * MaxVal)}
                 \cup {[nums |-> CapNums, target |-> CapTarget],
                       [nums |-> CapTwos, target |-> CapTarget]}
    /\ mem = [stack |-> <<BtFrame(0, 0)>>, path |-> <<>>, found |-> Null, abort |-> FALSE]
    /\ StartState

\* entry of dfs(idx, sum), up to its return or its first recursive call
BacktrackingVisit ==
    /\ sim = "backtracking" /\ pc = "run"
    /\ mem.stack # <<>>
    /\ LET d == Len(mem.stack)
           f == mem.stack[d]
           popped == SubSeq(mem.stack, 1, d - 1)
           s1 == Append(steps, [step |-> StepNo(steps), action |-> "visit state",
                                idx |-> f.idx, sum |-> f.sum, path |-> mem.path])
       IN /\ f.at = "call"
          /\ IF mem.abort \/ mem.found # Null
             THEN /\ mem' = [mem EXCEPT !.stack = popped]
                  /\ UNCHANGED steps
             ELSE IF Len(s1) >= STEP_CAP
             THEN /\ mem' = [mem EXCEPT !.stack = popped, !.abort = TRUE]
                  /\ steps' = Append(s1, [step |-> StepNo(s1),
                                          action |-> "step cap reached -> stop search"])
             ELSE IF f.sum = input.target
             THEN /\ mem' = [mem EXCEPT !.stack = popped, !.found = Some(mem.path)]
                  /\ steps' = Append(s1, [step |-> StepNo(s1), action |-> "target reached",
                                          target |-> input.target, path |-> mem.path])
             ELSE IF f.idx >= Len(input.nums) \/ f.sum > input.target
             THEN /\ mem' = [mem EXCEPT !.stack = popped]
                  /\ steps' = Append(s1, [step |-> StepNo(s1), action |-> "dead end",
                                          idx |-> f.idx, sum |-> f.sum])
             ELSE LET value == At(input.nums, f.idx)
                      path == Append(mem.path, value)
                  IN /\ mem' = [mem EXCEPT !.path = path,
                                           !.stack = Append([mem.stack EXCEPT ![d].at = "chosen"],
                                                            BtFrame(f.idx + 1, f.sum + value))]
                     /\ steps' = Append(s1, [step |-> StepNo(s1), action |-> "choose value",
                                             value |-> value, idx |-> f.idx, path |-> path])
    /\ UNCHANGED <<sim, earlier, pc, input, result, store>>

BacktrackingResumeNoSkip ==
    /\ sim = "backtracking" /\ pc = "run"
    /\ mem.stack # <<>>
    /\ LET d == Len(mem.stack)
           f == mem.stack[d]
           popped == SubSeq(mem.stack, 1, d - 1)
           path == SubSeq(mem.path, 1, Len(mem.path) - 1)
       IN /\ f.at \in {"chosen", "skipped"}
          /\ IF f.at = "skipped"
             THEN mem' = [mem EXCEPT !.stack = popped]
             ELSE mem' = [mem EXCEPT !.stack = popped, !.path = path]
          /\ UNCHANGED steps
    /\ UNCHANGED <<sim, earlier, pc, input, result, store>>

\* a recursive call returned into dfs(idx, sum)
BacktrackingResume ==
    /\ sim = "backtracking" /\ pc = "run"
    /\ mem.stack # <<>>
    /\ LET d == Len(mem.stack)
           f == mem.stack[d]
           popped == SubSeq(mem.stack, 1, d - 1)
           path == SubSeq(mem.path, 1, Len(mem.path) - 1)
       IN /\ f.at \in {"chosen", "skipped"}
          /\ IF f.at = "skipped"
             THEN /\ mem' = [mem EXCEPT !.stack = popped]
                  /\ UNCHANGED steps
             ELSE IF mem.found # Null \/ mem.abort
             THEN /\ mem' = [mem EXCEPT !.stack = popped, !.path = path]
                  /\ UNCHANGED steps
             ELSE /\ mem' = [mem EXCEPT !.path = path,
                                        !.stack = Append([mem.stack EXCEPT ![d].at = "skipped"],
                                                         BtFrame(f.idx + 1, f.sum))]
                  /\ steps' = Append(steps, [step |-> StepNo(steps), action |-> "skip value",
                                             value |-> At(input.nums, f.idx), idx |-> f.idx,
                                             path |-> path])
    /\ UNCHANGED <<sim, earlier, pc, input, result, store>>

BacktrackingReturn ==
    /\ sim = "backtracking" /\ pc = "run"
    /\ mem.stack = <<>>
    /\ result' = mem.found
    /\ pc' = "done"
    /\ UNCHANGED <<sim, earlier, input, mem, steps, store>>

NextBacktrackingSubsetSum == BacktrackingVisit \/ BacktrackingResume \/ BacktrackingReturn

----------------------------------------------------------------------------
(* simulateTriePrefix(words, prefix) *)

MaxWordLen == 2
MaxWords == 2

Letters == {"a", "b"}
Words == SeqsUpTo(Letters, MaxWordLen)

\* A trie node is identified by the characters on the path from the root;
\* `nodes` is the set of nodes made so far and the root is the empty path.
\* The for loop over the characters of word, from position i on.
RECURSIVE TrieInsert(_, _, _, _, _)
TrieInsert(word, wi, i, nodes, ss) ==
    IF i >= Len(word) THEN [nodes |-> nodes, steps |-> ss]
    ELSE LET child == SubSeq(word, 1, i + 1) IN
         IF child \notin nodes
         THEN TrieInsert(word, wi, i + 1, nodes \cup {child},
                         Append(ss, [step |-> StepNo(ss), action |-> "create trie node",
                                     wordIndex |-> wi, word |-> Join(word),
                                     char |-> At(word, i), depth |-> i + 1]))
         ELSE TrieInsert(word, wi, i + 1, nodes, ss)

InitTriePrefix ==
    /\ sim = "trie"
    /\ pc = "insert"
    /\ input \in {[words |-> ws, prefix |-> p] : ws \in SeqsUpTo(Words, MaxWords), p \in Words}
    /\ mem = [wi |-> 0, nodes |-> {<<>>}, ends |-> {}, i |-> 0]
    /\ StartState

\* one callback of words.forEach
TriePrefixInsertWord ==
    /\ sim = "trie" /\ pc = "insert"
    /\ mem.wi < Len(input.words)
    /\ LET word == At(input.words, mem.wi)
           ins == TrieInsert(word, mem.wi, 0, mem.nodes, steps)
       IN /\ steps' = Append(ins.steps, [step |-> StepNo(ins.steps), action |-> "mark end of word",
                                         wordIndex |-> mem.wi, word |-> Join(word)])
          /\ mem' = [mem EXCEPT !.nodes = ins.nodes, !.ends = @ \cup {word}, !.wi = @ + 1]
    /\ UNCHANGED <<sim, earlier, pc, input, result, store>>

\* one iteration of the for loop over the characters of prefix
TriePrefixWalk ==
    /\ sim = "trie" /\ pc = "insert"
    /\ mem.wi >= Len(input.words)
    /\ mem.i < Len(input.prefix)
    /\ LET ch == At(input.prefix, mem.i) IN
       IF SubSeq(input.prefix, 1, mem.i + 1) \notin mem.nodes
       THEN /\ steps' = Append(steps, [step |-> StepNo(steps), action |-> "prefix char missing",
                                       char |-> ch, depth |-> mem.i + 1])
            /\ result' = FALSE
            /\ pc' = "done"
            /\ UNCHANGED mem
       ELSE /\ steps' = Append(steps, [step |-> StepNo(steps), action |-> "prefix char matched",
                                       char |-> ch, depth |-> mem.i + 1])
            /\ mem' = [mem EXCEPT !.i = @ + 1]
            /\ UNCHANGED <<pc, result>>
    /\ UNCHANGED <<sim, earlier, input, store>>

TriePrefixExists ==
    /\ sim = "trie" /\ pc = "insert"
    /\ mem.wi >= Len(input.words)
    /\ mem.i >= Len(input.prefix)
    /\ steps' = Append(steps, [step |-> StepNo(steps), action |-> "prefix exists",
                               prefix |-> Join(input.prefix)])
    /\ result' = TRUE
    /\ pc' = "done"
    /\ UNCHANGED <<sim, earlier, input, mem, store>>

NextTriePrefix == TriePrefixInsertWord \/ TriePrefixWalk \/ TriePrefixExists

----------------------------------------------------------------------------
(* Specifications *)

Init ==
    \/ InitHashDuplicate
    \/ InitHashFrequency
    \/ InitTwoPointers
    \/ InitSlidingWindow
    \/ InitBinarySearch
    \/ InitStackParens
    \/ InitFibMemo
    \/ InitHeapTopK
    \/ InitMonotonicWindowMax
    \/ InitIntervalsMerge
    \/ InitGreedyIntervalScheduling
    \/ InitPrefixDifference
    \/ InitBfsGrid
    \/ InitDfsGraph
    \/ InitTopologicalSort
    \/ InitUnionFind
    \/ InitDijkstra
    \/ InitBacktrackingSubsetSum
    \/ InitTriePrefix

Next ==
    \/ NextHashDuplicate
    \/ NextHashFrequency
    \/ NextTwoPointers
    \/ NextSlidingWindow
    \/ NextBinarySearch
    \/ NextStackParens
    \/ NextFibMemo
    \/ NextHeapTopK
    \/ NextMonotonicWindowMax
    \/ NextIntervalsMerge
    \/ NextGreedyIntervalScheduling
    \/ NextPrefixDifference
    \/ NextBfsGrid
    \/ NextDfsGraph
    \/ NextTopologicalSort
    \/ NextUnionFind
    \/ NextDijkstra
    \/ NextBacktrackingSubsetSum
    \/ NextTriePrefix

Spec == Init /\ [][Next]_vars

SpecBinarySearch == InitBinarySearch /\ [][NextBinarySearch]_vars

SpecIntervalsMerge == InitIntervalsMerge /\ [][NextIntervalsMerge]_vars

SpecUnionFind == InitUnionFind /\ [][NextUnionFind]_vars

SpecHeapTopK == InitHeapTopK /\ [][NextHeapTopK]_vars

SpecTopologicalSort == InitTopologicalSort /\ [][NextTopologicalSort]_vars

SpecHashDuplicate == InitHashDuplicate /\ [][NextHashDuplicate]_vars

SpecSlidingWindow == InitSlidingWindow /\ [][NextSlidingWindow]_vars

SpecDijkstra == InitDijkstra /\ [][NextDijkstra]_vars

SpecIntervalsMergeTwice == InitIntervalsMerge /\ [][NextIntervalsMerge \/ IntervalsMergeAgain]_vars

SpecBacktrackingSubsetSum == InitBacktrackingSubsetSum /\ [][NextBacktrackingSubsetSum]_vars

SpecBfsGrid == InitBfsGrid /\ [][NextBfsGrid]_vars

\* simulateUnionFind on edges as parseEdges yields them, parts with a missing
\* endpoint included
SpecUnionFindParsed == InitUnionFind /\ [][NextUnionFind \/ UnionFindParsedEdge]_vars

SpecPrefixDifference == InitPrefixDifference /\ [][NextPrefixDifference]_vars

SpecMonotonicWindowMax == InitMonotonicWindowMax /\ [][NextMonotonicWindowMax]_vars

SpecGreedyIntervalScheduling == InitGreedyIntervalScheduling /\ [][NextGreedyIntervalScheduling]_vars

SpecDfsGraph == InitDfsGraph /\ [][NextDfsGraph]_vars

\* the simulator is one synchronous call: a step that can be taken is taken
SpecDfsGraphRuns == SpecDfsGraph /\ WF_vars(NextDfsGraph)

SpecTriePrefix == InitTriePrefix /\ [][NextTriePrefix]_vars

----------------------------------------------------------------------------
(* Properties of the step trace *)

Done == pc = "done"
LastStep == steps[Len(steps)]

\* C1: in every trace, of every simulator and at every moment of the run, the
\* step at index i carries step = i (sequence numbers start at 0 and are
\* contiguous), early-exit traces and the capped backtracking trace included.
StepNumbersContiguous == \A i \in 1..Len(steps) : steps[i].step = i - 1

\* the backtracking run that was stopped by the step cap has returned
CappedTraceReturned ==
    /\ sim = "backtracking" /\ Done
    /\ Len(steps) > STEP_CAP
    /\ LastStep.action = "step cap reached -> stop search"

\* C2: every simulator call returns a trace with at least one step.
EveryTraceNonEmpty == Done => Len(steps) >= 1

HasNums == sim \in {"hash_set", "hash_map", "two_pointers", "sliding_window", "binary_search",
                    "prefix_difference", "heap", "monotonic_queue", "backtracking"}
HasK == sim \in {"sliding_window", "heap", "monotonic_queue"}
HasIntervals == sim \in {"intervals", "greedy"}
HasNodeCount == sim \in {"dfs", "topological_sort", "union_find", "dijkstra"}
HasStartNode == sim \in {"dfs", "dijkstra"}

\* the input is degenerate for the simulator that received it
Degenerate ==
    \/ HasNums /\ Len(input.nums) = 0
    \/ HasK /\ input.k <= 0
    \/ HasIntervals /\ Len(input.intervals) = 0
    \/ HasNodeCount /\ input.nodeCount <= 0
    \/ HasStartNode /\ (input.start < 0 \/ input.start >= input.nodeCount)
    \/ sim = "bfs" /\ \/ input.rows <= 0 \/ input.cols <= 0
                      \/ input.start[1] < 0 \/ input.start[1] >= input.rows
                      \/ input.start[2] < 0 \/ input.start[2] >= input.cols
    \/ sim = "dp" /\ input.n < 0

\* the result is one of null, false, 0, -1, []
SentinelResult ==
    CASE sim \in {"hash_set", "backtracking"} -> result = Null \/ result = Some(<<>>)
      [] sim \in {"two_pointers", "union_find", "stack", "trie"} -> result = FALSE
      [] sim \in {"sliding_window", "binary_search", "bfs", "dfs"} -> result = 0
      [] sim = "prefix_difference" -> Len(input.nums) = 0 /\ result = 0
      [] sim = "dp" -> result = 0 \/ result = -1
      [] sim = "topological_sort" -> input.nodeCount <= 0 /\ result = <<>>
      [] OTHER -> result = <<>>

\* C3: on a degenerate input every simulator returns exactly one step and a
\* sentinel result.
DegenerateShortCircuits == (Done /\ Degenerate) => (Len(steps) = 1 /\ SentinelResult)

\* what a reader of a recorded step sees: the snapshot with the inner arrays
\* its addresses point to
StepView(s, st) ==
    IF sim = "intervals" /\ s.action \in {"start new interval", "merge overlap"}
    THEN [s EXCEPT !.merged = Deref(st, s.merged)]
    ELSE s

\* C4: once a step is appended, what it shows never changes during the rest of
\* the simulation, nested snapshot arrays included.
StepsImmutable ==
    [][\A i \in 1..Len(steps) :
          i <= Len(steps') /\ StepView(steps'[i], store') = StepView(steps[i], store)]_vars

----------------------------------------------------------------------------
(* Binary search *)

\* smallest 0-based index whose value is >= target, or the length
LowerBound(nums, target) ==
    IF \E j \in DOMAIN nums : nums[j] >= target
    THEN SetMin({j \in DOMAIN nums : nums[j] >= target}) - 1
    ELSE Len(nums)

\* C5: for sorted nums the result is the lower bound of target, 0 <= lo <= hi
\* <= nums.length holds throughout, and every comparison strictly decreases
\* hi - lo.
BinarySearchLowerBound ==
    /\ [](sim = "binary_search" =>
            /\ 0 <= mem.lo /\ mem.lo <= mem.hi /\ mem.hi <= Len(input.nums)
            /\ Done => result = LowerBound(input.nums, input.target))
    /\ [][(sim = "binary_search" /\ steps' # steps /\ pc' = "loop")
              => mem'.hi - mem'.lo < mem.hi - mem.lo]_vars

\* the duplicates preset has returned index 1
PresetDuplicatesFound ==
    /\ sim = "binary_search" /\ Done
    /\ input.nums = PresetDuplicates /\ input.target = 2
    /\ result = 1

ComparisonSteps == {i \in 1..Len(steps) : steps[i].action # "done"}

----------------------------------------------------------------------------
(* Union-Find *)

\* root of x by following parent pointers, without compressing
RootOf(parent, x) ==
    LET Up[k \in 0..Len(parent)] == IF k = 0 THEN x ELSE At(parent, Up[k - 1])
    IN Up[Len(parent)]

InRangeEdges(n, edges) ==
    {<<edges[j][1], edges[j][2]>> : j \in {j \in DOMAIN edges :
                                             InRange(edges[j][1], n) /\ InRange(edges[j][2], n)}}

\* nodes joined to a node of S by the undirected edges E, transitively
RECURSIVE Component(_, _)
Component(S, E) ==
    LET T == S \cup {e[2] : e \in {e \in E : e[1] \in S}} \cup {e[1] : e \in {e \in E : e[2] \in S}}
    IN IF T = S THEN S ELSE Component(T, E)

Connected(n, edges, a, b) == b \in Component({a}, InRangeEdges(n, edges))

UnionSteps == {i \in 1..Len(steps) : steps[i].action \in {"union components", "already connected"}}

AlreadyConnectedSteps == {i \in 2..Len(steps) : steps[i].action = "already connected"}

----------------------------------------------------------------------------
(* Heap top-k *)

Count(s, v) == Cardinality({j \in DOMAIN s : s[j] = v})
Values(s) == {s[j] : j \in DOMAIN s}
IsDescending(s) == \A j \in 1..(Len(s) - 1) : s[j] >= s[j + 1]

\* C9: for k > 0 the result holds exactly the min(k, n) largest elements of
\* nums, as a multiset, in descending order.
HeapTopKIsLargest ==
    (sim = "heap" /\ Done /\ input.k > 0) =>
        /\ Len(result) = Min2(input.k, Len(input.nums))
        /\ IsDescending(result)
        /\ \A v \in Values(result) : Count(result, v) <= Count(input.nums, v)
        /\ \A v \in Values(input.nums) :
              (Len(result) > 0 /\ v > result[Len(result)]) => Count(result, v) = Count(input.nums, v)

\* a top-k run that had to drop elements, among them a tie of the smallest kept
TopKDroppedATie ==
    /\ sim = "heap" /\ Done /\ input.k > 0
    /\ input.k < Len(input.nums)
    /\ Count(input.nums, result[Len(result)]) > Count(result, result[Len(result)])

IsMinHeap(h) == \A i \in 1..(Len(h) - 1) : At(h, (i - 1) \div 2) <= At(h, i)

HeapSteps == {i \in 1..Len(steps) : steps[i].action \in {"push into min-heap",
                                                         "heap size > k -> pop smallest"}}

\* C10: every recorded heap snapshot satisfies the min-heap order, and after
\* an element has been processed the heap holds at most k values.
HeapOrderAndSize ==
    (sim = "heap" /\ input.k > 0) =>
        /\ \A i \in HeapSteps : IsMinHeap(steps[i].heap)
        /\ Len(mem.heap) <= input.k

\* a pop that left three or more values, and a push that had to sift up
HeapWasReordered ==
    /\ sim = "heap"
    /\ \E i \in HeapSteps : steps[i].action = "heap size > k -> pop smallest" /\ Len(steps[i].heap) >= 3
    /\ \E i \in HeapSteps : /\ steps[i].action = "push into min-heap"
                            /\ steps[i].heap[Len(steps[i].heap)] # steps[i].value

----------------------------------------------------------------------------
(* Topological sort *)

\* nodes reached from a node of S along the directed edges E, S included
RECURSIVE ReachDirected(_, _)
ReachDirected(S, E) ==
    LET T == S \cup {e[2] : e \in {e \in E : e[1] \in S}}
    IN IF T = S THEN S ELSE ReachDirected(T, E)

\* some node reaches itself along one or more in-range edges
HasDirectedCycle(n, edges) ==
    LET E == InRangeEdges(n, edges)
    IN \E e \in E : e[1] \in ReachDirected({e[2]}, E)

\* C11: for nodeCount > 0 the order is complete iff hasCycle is false, hasCycle
\* is true exactly when the in-range edges contain a directed cycle, and the
\* cycle preset reports hasCycle with fewer than 4 nodes in the order.
TopologicalSortDetectsCycles ==
    (sim = "topological_sort" /\ Done /\ input.nodeCount > 0) =>
        /\ (Len(result.order) = input.nodeCount) <=> (result.hasCycle = FALSE)
        /\ result.hasCycle <=> HasDirectedCycle(input.nodeCount, input.edges)
        /\ input = PresetCycle => (result.hasCycle /\ Len(result.order) < 4)

\* the cycle preset has returned, its order left incomplete
PresetCycleReported ==
    /\ sim = "topological_sort" /\ Done
    /\ input = PresetCycle
    /\ result.hasCycle /\ Len(result.order) < 4

----------------------------------------------------------------------------
(* Hash duplicate *)

\* 0-based indices whose value equals an earlier element
RepeatIndices(nums) == {j \in 0..(Len(nums) - 1) : \E i \in 0..(j - 1) : At(nums, i) = At(nums, j)}

\* C12: the result is the value at the smallest index j that repeats an
\* earlier element, the trace has j + 1 steps ending with 'duplicate found ->
\* stop' at index j; with all values distinct the whole list is scanned and the
\* result is null; the preset yields 7, found at index 3.
HashDuplicateFindsFirstRepeat ==
    (sim = "hash_set" /\ Done) =>
        /\ IF RepeatIndices(input.nums) # {}
           THEN LET j == SetMin(RepeatIndices(input.nums))
                IN /\ result = Some(At(input.nums, j))
                   /\ Len(steps) = j + 1
                   /\ LastStep.action = "duplicate found -> stop"
                   /\ LastStep.index = j
                   /\ \A i \in 1..j : steps[i].action = "insert into set"
           ELSE /\ result = Null
                /\ Len(steps) = Len(input.nums) + 1
                /\ LastStep.action = "finished: no duplicates"
        /\ input.nums = PresetRepeats => (result = Some(7) /\ LastStep.index = 3)

\* the preset has stopped at its first repeat, with a later repeat left unread
PresetRepeatStopped ==
    /\ sim = "hash_set" /\ Done
    /\ input.nums = PresetRepeats
    /\ result = Some(7) /\ Len(steps) = 4

----------------------------------------------------------------------------
(* Sliding window *)

\* sum of nums[l..r], 0-based and inclusive; 0 when l > r
RangeSum(nums, l, r) == SumSeq(SubSeq(nums, l + 1, r + 1))

\* brute force: the longest contiguous run whose sum is <= k, 0 if none
LongestWithin(nums, k) ==
    LET ok == {<<l, r>> \in (0..(Len(nums) - 1)) \X (0..(Len(nums) - 1)) :
                  l <= r /\ RangeSum(nums, l, r) <= k}
    IN IF ok = {} THEN 0 ELSE SetMax({p[2] - p[1] + 1 : p \in ok})

UpdateSteps == {i \in 1..Len(steps) : steps[i].phase = "update"}

\* C13: for non-negative nums the result is the brute-force longest window
\* with sum <= k (at least 3 for the preset); at every 'update' step the
\* recorded sum is the sum of nums[left..right], and sum <= k or the window is
\* empty (left = right + 1).
SlidingWindowMatchesBruteForce ==
    sim = "sliding_window" =>
        /\ Done => result = LongestWithin(input.nums, input.k)
        /\ (Done /\ input = PresetWindow) => result >= 3
        /\ \A i \in UpdateSteps :
              /\ steps[i].sum = RangeSum(input.nums, steps[i].left, steps[i].right)
              /\ steps[i].sum <= input.k \/ steps[i].left = steps[i].right + 1

\* the preset has returned after shrinking its window
PresetWindowShrunk ==
    /\ sim = "sliding_window" /\ Done
    /\ input = PresetWindow
    /\ result >= 3
    /\ \E i \in 1..Len(steps) : steps[i].phase = "shrink"

----------------------------------------------------------------------------
(* Dijkstra *)

\* the in-range edges of weight >= 0, in both directions
UsableEdges(n, edges) ==
    LET ok == {j \in DOMAIN edges : /\ InRange(edges[j][1], n) /\ InRange(edges[j][2], n)
                                     /\ edges[j][3] >= 0}
    IN {<<edges[j][1], edges[j][2], edges[j][3]>> : j \in ok}
       \cup {<<edges[j][2], edges[j][1], edges[j][3]>> : j \in ok}

\* lengths of the paths of at most `hops` edges from start to v along E
RECURSIVE PathLengths(_, _, _, _)
PathLengths(E, start, v, hops) ==
    (IF v = start THEN {0} ELSE {})
    \cup (IF hops = 0 THEN {}
          ELSE UNION {{l + e[3] : l \in PathLengths(E, start, e[1], hops - 1)} :
                         e \in {e \in E : e[2] = v}})

\* the shortest distance from start to v, Null when no path exists
ShortestDistance(n, edges, start, v) ==
    LET ls == PathLengths(UsableEdges(n, edges), start, v, n - 1)
    IN IF ls = {} THEN Null ELSE Some(SetMin(ls))

\* C14: for a valid start, result[v] is the length of a shortest path from
\* start to v over the in-range edges of weight >= 0, result[start] = 0, and
\* result[v] is null exactly when v is unreachable; in the preset result[4] and
\* result[6] are null.
DijkstraShortestPaths ==
    (sim = "dijkstra" /\ Done /\ input.nodeCount > 0 /\ InRange(input.start, input.nodeCount)) =>
        /\ Len(result) = input.nodeCount
        /\ At(result, input.start) = Some(0)
        /\ \A v \in 0..(input.nodeCount - 1) :
              At(result, v) = ShortestDistance(input.nodeCount, input.edges, input.start, v)
        /\ \A v \in 0..(input.nodeCount - 1) :
              (At(result, v) = Null) <=>
                  v \notin Component({input.start},
                                     {<<e[1], e[2]>> : e \in UsableEdges(input.nodeCount, input.edges)})
        /\ input = PresetUnreachable => (At(result, 4) = Null /\ At(result, 6) = Null)

\* the preset has returned with nodes 4 and 6 unreachable and node 3 at distance 6
PresetUnreachableReturned ==
    /\ sim = "dijkstra" /\ Done
    /\ input = PresetUnreachable
    /\ At(result, 4) = Null /\ At(result, 6) = Null /\ At(result, 3) = Some(6)

----------------------------------------------------------------------------
(* Merging intervals twice *)

SecondMergeDone == sim = "intervals" /\ Done /\ "first" \in DOMAIN mem

\* C15: simulateIntervalsMerge called on its own result returns the same list
\* of intervals.
MergeIsIdempotent == SecondMergeDone => Deref(store, result) = mem.first

\* the second call has returned for a list the first call had shortened to two
\* or more intervals
MergedTwice ==
    /\ SecondMergeDone
    /\ Len(mem.first) >= 2
    /\ Len(mem.first) < Len(mem.given)

----------------------------------------------------------------------------
(* Backtracking step cap *)

CapNotices == {i \in 1..Len(steps) : steps[i].action = "step cap reached -> stop search"}

\* C16: the trace never holds more than 700 steps plus the cap notice; the
\* notice, once recorded, stays the last step; a capped run returns null.
BacktrackingCapIsHard ==
    sim = "backtracking" =>
        /\ Len(steps) <= STEP_CAP + 1
        /\ \A i \in CapNotices : i = Len(steps)
        /\ (Done /\ CapNotices # {}) => result = Null

----------------------------------------------------------------------------
(* Calling a simulator twice *)

\* where each simulator starts
EntryPc(key) ==
    CASE key \in {"hash_set", "hash_map", "stack"} -> "scan"
      [] key = "sliding_window" -> "expand"
      [] key = "binary_search" -> "loop"
      [] key = "backtracking" -> "run"
      [] key = "trie" -> "insert"
      [] OTHER -> "start"

\* the locals each simulator declares on entry, for the arguments inp
Locals(key, inp) ==
    CASE key = "hash_set" -> [i |-> 0, seen |-> {}]
      [] key = "hash_map" -> [i |-> 0, freq |-> [x \in {} |-> 0]]
      [] key = "two_pointers" -> [left |-> 0, right |-> Len(inp.nums) - 1]
      [] key = "sliding_window" -> [left |-> 0, right |-> 0, sum |-> 0, best |-> 0]
      [] key = "binary_search" -> [lo |-> 0, hi |-> Len(inp.nums)]
      [] key = "stack" -> [i |-> 0, stack |-> <<>>]
      [] key = "dp" -> [stack |-> <<>>, memo |-> [x \in {} |-> 0], ret |-> Null]
      [] key = "heap" -> [i |-> 0, heap |-> <<>>]
      [] key = "monotonic_queue" -> [i |-> 0, deque |-> <<>>, out |-> <<>>]
      [] key = "intervals" -> [i |-> 0, sorted |-> <<>>, merged |-> <<>>]
      [] key = "greedy" -> [i |-> 0, sorted |-> <<>>, selected |-> <<>>, lastEnd |-> Null]
      [] key = "prefix_difference" ->
            [diff |-> Zeros(Len(inp.nums) + 1), i |-> 0, j |-> 0, runningDelta |-> 0,
             adjusted |-> Zeros(Len(inp.nums)), prefix |-> Zeros(Len(inp.nums))]
      [] key = "bfs" -> [queue |-> <<>>, head |-> 0, visited |-> <<>>]
      [] key = "dfs" -> [adj |-> DfsAdj(inp.nodeCount, inp.edges), seen |-> {}, stack |-> <<>>]
      [] key = "topological_sort" ->
            [adj |-> <<>>, inDeg |-> <<>>, queue |-> <<>>, head |-> 0, order |-> <<>>]
      [] key = "union_find" ->
            [parent |-> [j \in 1..inp.nodeCount |-> j - 1], rank |-> Zeros(inp.nodeCount)]
      [] key = "dijkstra" -> [adj |-> <<>>, dist |-> <<>>, heap |-> <<>>]
      [] key = "backtracking" ->
            [stack |-> <<BtFrame(0, 0)>>, path |-> <<>>, found |-> Null, abort |-> FALSE]
      [] key = "trie" -> [wi |-> 0, nodes |-> {<<>>}, ends |-> {}, i |-> 0]

\* the arguments as the caller passes them again: lists that are drawn while
\* read start unread
Unread(key, inp) ==
    CASE key = "union_find" -> [inp EXCEPT !.edges = <<>>, !.queryA = 0, !.queryB = 0]
      [] key = "prefix_difference" -> [inp EXCEPT !.updates = <<>>, !.queryL = 0, !.queryR = 0]
      [] OTHER -> inp

\* repeated calls are explored for graphs of up to RepeatEdges edges
RepeatEdges == 2

Repeatable == "edges" \in DOMAIN input => Len(input.edges) <= RepeatEdges

\* what a reader sees in the returned steps and result
StepsView == [i \in 1..Len(steps) |-> StepView(steps[i], store)]
ResultView == IF sim = "intervals" THEN Deref(store, result) ELSE result

CallAgainSharedMemo ==
    /\ pc = "done" /\ earlier = Null
    /\ Repeatable
    /\ earlier' = Some([steps |-> StepsView, result |-> ResultView, input |-> input])
    /\ input' = Unread(sim, input)
    /\ pc' = EntryPc(sim)
    /\ mem' = IF sim = "dp" THEN [Locals(sim, input) EXCEPT !.memo = mem.memo]
              ELSE Locals(sim, input)
    /\ steps' = <<>>
    /\ result' = Null
    /\ UNCHANGED <<sim, store>>

\* The caller keeps what the call returned and calls the same simulator with
\* the same arguments.  Every simulator declares its locals inside its body,
\* so the new call starts from fresh ones; arrays allocated earlier stay on the
\* heap.
CallAgain ==
    /\ pc = "done" /\ earlier = Null
    /\ Repeatable
    /\ earlier' = Some([steps |-> StepsView, result |-> ResultView, input |-> input])
    /\ input' = Unread(sim, input)
    /\ pc' = EntryPc(sim)
    /\ mem' = Locals(sim, input)
    /\ steps' = <<>>
    /\ result' = Null
    /\ UNCHANGED <<sim, store>>

SpecCalledTwice == Init /\ [][Next \/ CallAgain]_vars

SecondCallDone == Done /\ earlier # Null

\* C17: a second call of the same simulator with identical arguments returns
\* the same steps and the same result as the first.
SecondCallIsIdentical ==
    SecondCallDone =>
        /\ input = earlier[1].input
        /\ StepsView = earlier[1].steps
        /\ ResultView = earlier[1].result

\* a memoised run with memo hits has returned a second time
MemoRunRepeated ==
    /\ SecondCallDone
    /\ sim = "dp"
    /\ \E i \in 1..Len(steps) : steps[i].action = "memo hit"

----------------------------------------------------------------------------
(* BFS on the grid *)

InGrid(p) == p[1] >= 0 /\ p[1] < input.rows /\ p[2] >= 0 /\ p[2] < input.cols

OpenCell(p) == InGrid(p) /\ keyCell(p[1], p[2]) \notin input.blocked

\* cells reached from a cell of S by 4-directional moves through open cells
RECURSIVE GridReach(_)
GridReach(S) ==
    LET T == S \cup {q \in GridCells(input.rows, input.cols) :
                        /\ OpenCell(q)
                        /\ \E p \in S, d \in DOMAIN dirs :
                              q = <<p[1] + dirs[d][1], p[2] + dirs[d][2]>>}
    IN IF T = S THEN S ELSE GridReach(T)

\* the in-grid, unblocked cells reachable from the start
ReachableCells == IF OpenCell(input.start) THEN GridReach({input.start}) ELSE {}

\* C18: every visited or enqueued cell is inside the grid and unblocked, no
\* cell is enqueued twice, and on return the visited set is exactly the set of
\* open cells reachable from the start and `result` is its size, wherever the
\* start lies.
BfsVisitsReachableCells ==
    sim = "bfs" =>
        /\ \A j \in DOMAIN mem.queue : OpenCell(mem.queue[j])
        /\ \A j \in DOMAIN mem.visited :
              \E p \in GridCells(input.rows, input.cols) :
                 OpenCell(p) /\ mem.visited[j] = keyCell(p[1], p[2])
        /\ \A j, k \in DOMAIN mem.queue : mem.queue[j] = mem.queue[k] => j = k
        /\ Done =>
              /\ {mem.visited[j] : j \in DOMAIN mem.visited}
                    = {keyCell(p[1], p[2]) : p \in ReachableCells}
              /\ result = Cardinality(ReachableCells)

----------------------------------------------------------------------------
(* Union-find: edges with an endpoint that is no node *)

ValidNode(x, n) == x \in 0..(n - 1)

ValidEdgesRead == {j \in DOMAIN input.edges : ValidNode(input.edges[j][1], input.nodeCount)
                                              /\ ValidNode(input.edges[j][2], input.nodeCount)}

\* C19: an edge with an endpoint that is not a node index in [0, nodeCount),
\* out of range or NaN/undefined, records no step and leaves parent and rank
\* unchanged: the union steps are exactly those of the valid edges read, each
\* has both endpoints in range, and while edges are read the parent and rank
\* arrays are those the last union step recorded (the initial ones before it).
UnionFindIgnoresInvalidEdges ==
    (sim = "union_find" /\ input.nodeCount > 0) =>
        /\ \A i \in UnionSteps : /\ ValidNode(steps[i].edge[1], input.nodeCount)
                                 /\ ValidNode(steps[i].edge[2], input.nodeCount)
        /\ {steps[i].edgeIndex + 1 : i \in UnionSteps} = ValidEdgesRead
        /\ ~Done =>
              IF UnionSteps = {}
              THEN /\ mem.parent = [j \in 1..input.nodeCount |-> j - 1]
                   /\ mem.rank = Zeros(input.nodeCount)
              ELSE /\ mem.parent = steps[SetMax(UnionSteps)].parent
                   /\ mem.rank = steps[SetMax(UnionSteps)].rank

----------------------------------------------------------------------------
(* Prefix sums over a difference array *)

\* the update's index range, intersected with [0, n - 1], contains i
Covers(update, n, i) ==
    Max2(Min2(update[1], update[2]), 0) <= i /\ i <= Min2(Max2(update[1], update[2]), n - 1)

\* the sum of delta over the updates that cover i
RECURSIVE DeltaOver(_, _, _)
DeltaOver(updates, n, i) ==
    IF updates = <<>> THEN 0
    ELSE (IF Covers(Head(updates), n, i) THEN Head(updates)[3] ELSE 0)
             + DeltaOver(Tail(updates), n, i)

\* an update lies wholly outside the array
OutsideArray(update, n) == \A i \in 0..(n - 1) : ~Covers(update, n, i)

\* C20: adjusted[i] is nums[i] plus the deltas of the updates whose range,
\* intersected with [0, n - 1], contains i (an update wholly outside the array
\* changes nothing); the diff array keeps its n + 1 entries; prefix[i] is the
\* sum of adjusted[0..i]; rangeSum is the sum of adjusted[l..r] for the
\* clamped, order-normalized query [l, r].
PrefixDifferenceMatchesReference ==
    (sim = "prefix_difference" /\ Done /\ Len(input.nums) > 0) =>
        LET n == Len(input.nums)
            l == clampIndex(Min2(input.queryL, input.queryR), n)
            r == clampIndex(Max2(input.queryL, input.queryR), n)
        IN /\ DOMAIN mem.diff = 1..(n + 1)
           /\ \A i \in 0..(n - 1) :
                  /\ At(result.adjusted, i) = At(input.nums, i) + DeltaOver(input.updates, n, i)
                  /\ At(result.prefix, i) = RangeSum(result.adjusted, 0, i)
           /\ result.query = <<l, r>>
           /\ result.rangeSum = RangeSum(result.adjusted, l, r)

----------------------------------------------------------------------------
(* Merged intervals: sorted, apart, and covering what the input covers *)

\* the points of [0, MaxVal] at half-integer resolution, as twice their value
HalfPoints == 0..(2 * MaxVal)

\* the point h / 2 lies in one of the closed intervals of the list
CoveredBy(list, h) == \E j \in DOMAIN list : 2 * list[j][1] <= h /\ h <= 2 * list[j][2]

\* C21: the result of simulateIntervalsMerge is sorted by start, each end is
\* strictly less than the next start (touching intervals are merged), and the
\* result covers exactly the points the input intervals cover.
MergedIsDisjointCover ==
    (sim = "intervals" /\ Done) =>
        LET merged == Deref(store, result)
        IN /\ \A j \in DOMAIN merged : merged[j][1] <= merged[j][2]
           /\ \A j \in 1..(Len(merged) - 1) :
                  /\ merged[j][1] <= merged[j + 1][1]
                  /\ merged[j][2] < merged[j + 1][1]
           /\ \A h \in HalfPoints : CoveredBy(merged, h) <=> CoveredBy(input.intervals, h)

\* two touching intervals, given out of order next to a separate one, were merged
TouchingMerged ==
    /\ sim = "intervals" /\ Done
    /\ input.intervals = <<<<1, 2>>, <<0, 0>>, <<0, 1>>>>
    /\ Deref(store, result) = <<<<0, 2>>>>

----------------------------------------------------------------------------
(* Subset sum: what the search returns *)

\* the values of nums at the indices of I, in the order of nums
RECURSIVE Picked(_, _, _)
Picked(nums, I, j) ==
    IF j > Len(nums) THEN <<>>
    ELSE (IF j \in I THEN <<nums[j]>> ELSE <<>>) \o Picked(nums, I, j + 1)

\* the subsequences of nums whose sum is target
SubsetsSummingTo(nums, target) ==
    {Picked(nums, I, 1) : I \in {I \in SUBSET (DOMAIN nums) : SumSeq(Picked(nums, I, 1)) = target}}

\* exhaustive depth-first search, include before exclude, without pruning and
\* without a cap
RECURSIVE FirstSubset(_, _, _, _, _)
FirstSubset(nums, target, idx, sum, path) ==
    IF sum = target THEN Some(path)
    ELSE IF idx >= Len(nums) THEN Null
    ELSE LET with == FirstSubset(nums, target, idx + 1, sum + At(nums, idx),
                                 Append(path, At(nums, idx)))
         IN IF with # Null THEN with
            ELSE FirstSubset(nums, target, idx + 1, sum, path)

\* C22: a non-null result is a subsequence of nums that sums to target and is
\* the first one in include-before-exclude depth-first order; a null result
\* without a 'step cap reached' step means no subset of nums sums to target.
SubsetSumSoundAndComplete ==
    (sim = "backtracking" /\ Done) =>
        /\ result # Null =>
              /\ result[1] \in SubsetsSummingTo(input.nums, input.target)
              /\ result = FirstSubset(input.nums, input.target, 0, 0, <<>>)
        /\ (result = Null /\ CapNotices = {}) =>
              SubsetsSummingTo(input.nums, input.target) = {}

\* a subset found only after an include branch ran into a dead end
FoundAfterSkip ==
    /\ sim = "backtracking" /\ Done
    /\ input = [nums |-> <<2, 2, 1>>, target |-> 3]
    /\ result = Some(<<2, 1>>)

----------------------------------------------------------------------------
(* Dijkstra: finalized nodes and stale heap entries *)

FinalizeSteps == {i \in 1..Len(steps) : steps[i].action = "finalize node"}
RelaxSteps == {i \in 1..Len(steps) : steps[i].action = "relax edge"}
StaleSteps == {i \in 1..Len(steps) : steps[i].action = "skip stale heap entry"}

\* the distance a finalize step records for its own node
FinalizedDist(i) == At(steps[i].dist, steps[i].node)

\* C23: a node is finalized at most once; the distance recorded at its
\* finalization is never lowered by a later relax step and is its distance in
\* the result; finalize steps come in non-decreasing order of distance; a stale
\* heap entry only records a skip step: it changes no distance, and every relax
\* step follows the finalize step of its `from` node or another relax step of
\* that node.
DijkstraFinalizesOnce ==
    (sim = "dijkstra" /\ pc \in {"loop", "done"}) =>
        /\ \A i, j \in FinalizeSteps : steps[i].node = steps[j].node => i = j
        /\ \A i \in FinalizeSteps : FinalizedDist(i) # Null
        /\ \A i, j \in FinalizeSteps : i < j => FinalizedDist(i)[1] <= FinalizedDist(j)[1]
        /\ \A i \in FinalizeSteps : \A j \in RelaxSteps :
               i < j => /\ steps[j].to # steps[i].node
                        /\ At(steps[j].dist, steps[i].node) = FinalizedDist(i)
        /\ \A i \in FinalizeSteps : At(mem.dist, steps[i].node) = FinalizedDist(i)
        /\ Done => \A i \in FinalizeSteps : At(result, steps[i].node) = FinalizedDist(i)
        /\ \A j \in RelaxSteps :
               /\ j > 1
               /\ \/ steps[j - 1].action = "finalize node" /\ steps[j - 1].node = steps[j].from
                  \/ steps[j - 1].action = "relax edge" /\ steps[j - 1].from = steps[j].from
        /\ \A i \in StaleSteps :
               /\ Some(steps[i].poppedDist) # steps[i].currentDist
               /\ i > 1
               /\ i = Len(steps) =>
                     mem.dist = steps[SetMax(FinalizeSteps \cup RelaxSteps)].dist

\* a run has returned after skipping a stale entry of a node relaxed twice
StaleEntrySkipped ==
    /\ sim = "dijkstra" /\ Done
    /\ StaleSteps # {}
    /\ \E i, j \in RelaxSteps : i < j /\ steps[i].to = steps[j].to

----------------------------------------------------------------------------
(* Topological sort: the order that is emitted *)

PopSteps == {i \in 1..Len(steps) : steps[i].action = "pop zero-indegree node"}
InDegSteps == {i \in 1..Len(steps) : "inDeg" \in DOMAIN steps[i]}

\* position of node x in the order, 0 when it is absent
PlaceIn(order, x) == IF \E j \in DOMAIN order : order[j] = x
                     THEN CHOOSE j \in DOMAIN order : order[j] = x ELSE 0

\* nodes that no in-range edge enters
SourceNodes(n, edges) == {v \in 0..(n - 1) : \A e \in InRangeEdges(n, edges) : e[2] # v}

\* C24: the order holds no node twice; it starts with the zero-indegree nodes
\* in ascending id order; a node is popped only when the indegree recorded
\* last for it is zero; for every in-range edge u->v with v in the order, u
\* stands before v (also in a partial order); no recorded indegree is negative.
TopologicalOrderIsSafe ==
    (sim = "topological_sort" /\ input.nodeCount > 0 /\ pc \in {"loop", "done"}) =>
        LET n == input.nodeCount
            order == mem.order
            sources == SourceNodes(n, input.edges)
        IN /\ \A j, k \in DOMAIN order : order[j] = order[k] => j = k
           /\ \A j \in DOMAIN order : InRange(order[j], n)
           /\ \A j \in 1..Min2(Len(order), Cardinality(sources)) :
                  /\ order[j] \in sources
                  /\ Cardinality({x \in sources : x < order[j]}) = j - 1
           /\ \A i \in PopSteps :
                  At(steps[SetMax({j \in InDegSteps : j < i})].inDeg, steps[i].node) = 0
           /\ \A e \in InRangeEdges(n, input.edges) :
                  PlaceIn(order, e[2]) > 0 =>
                      (PlaceIn(order, e[1]) > 0 /\ PlaceIn(order, e[1]) < PlaceIn(order, e[2]))
           /\ \A i \in InDegSteps : \A j \in DOMAIN steps[i].inDeg : steps[i].inDeg[j] >= 0
           /\ Done => (result.order = order
                       /\ Cardinality(sources) <= Len(order))

\* a partial order was returned that holds an edge's two endpoints
PartialOrderReturned ==
    /\ sim = "topological_sort" /\ Done /\ input.nodeCount > 0
    /\ result.hasCycle
    /\ \E e \in InRangeEdges(input.nodeCount, input.edges) :
           PlaceIn(result.order, e[1]) > 0 /\ PlaceIn(result.order, e[2]) > 0

----------------------------------------------------------------------------
(* Sliding window maximum *)

PushSteps == {i \in 1..Len(steps) : steps[i].action = "push current index"}
EmitSteps == {i \in 1..Len(steps) : steps[i].action = "emit window max"}

\* max(nums[l..r]), 0-based and inclusive
WindowMax(nums, l, r) == SetMax({At(nums, j) : j \in l..r})

\* C25: for k > 0 exactly max(0, n - k + 1) values are emitted, the one emitted
\* at index i being max(nums[i-k+1..i]); after each 'push current index' step
\* the deque holds strictly increasing indices within [i-k+1, i] whose values
\* are strictly decreasing.
WindowMaxIsExact ==
    (sim = "monotonic_queue" /\ input.k > 0) =>
        LET n == Len(input.nums)
            k == input.k
        IN /\ \A s \in PushSteps :
                  LET dq == steps[s].deque
                      i == steps[s].index
                  IN /\ \A j \in DOMAIN dq : i - k + 1 <= dq[j] /\ dq[j] <= i
                     /\ \A j \in 1..(Len(dq) - 1) :
                            /\ dq[j] < dq[j + 1]
                            /\ At(input.nums, dq[j]) > At(input.nums, dq[j + 1])
                     /\ steps[s].dequeValues = [j \in DOMAIN dq |-> At(input.nums, dq[j])]
           /\ \A s \in EmitSteps :
                  /\ steps[s].windowEnd >= k - 1
                  /\ steps[s].maxValue = WindowMax(input.nums, steps[s].windowEnd - k + 1,
                                                   steps[s].windowEnd)
           /\ Done =>
                  /\ Len(result) = Max2(0, n - k + 1)
                  /\ Cardinality(EmitSteps) = Max2(0, n - k + 1)
                  /\ \A j \in DOMAIN result :
                         result[j] = WindowMax(input.nums, j - 1, j + k - 2)

\* the maximum left the window and was evicted before a smaller one was emitted
WindowMaxEvicted ==
    /\ sim = "monotonic_queue" /\ Done
    /\ input = [nums |-> <<2, 1, 0>>, k |-> 2]
    /\ result = <<2, 1>>
    /\ \E i \in 1..Len(steps) : steps[i].action = "evict out-of-window index"

----------------------------------------------------------------------------
(* Greedy interval scheduling: compatible and as many as possible *)

\* one of the two intervals ends no later than the other starts
Compatible(a, b) == a[2] <= b[1] \/ b[2] <= a[1]

\* exhaustive search: the size of a largest set of positions of the list whose
\* intervals are pairwise compatible
MaxCompatible(list) ==
    SetMax({Cardinality(I) : I \in {I \in SUBSET (DOMAIN list) :
                \A j, k \in I : j # k => Compatible(list[j], list[k])}})

\* C26: each selected interval starts no earlier than the previously selected
\* one ends, and the number selected is the maximum size of a pairwise
\* compatible subset of the input.
GreedySelectsMaximum ==
    sim = "greedy" =>
        /\ \A j \in 1..(Len(mem.selected) - 1) : mem.selected[j + 1][1] >= mem.selected[j][2]
        /\ Done => /\ result = mem.selected
                   /\ Len(result) = MaxCompatible(input.intervals)
                   /\ \E f \in [DOMAIN result -> DOMAIN input.intervals] :
                          /\ \A j \in DOMAIN result : input.intervals[f[j]] = result[j]
                          /\ \A j, k \in DOMAIN result : f[j] = f[k] => j = k

\* the activity selection preset has returned its three intervals
PresetActivitySelected ==
    /\ sim = "greedy" /\ Done
    /\ input.intervals = PresetActivity
    /\ result = <<<<1, 4>>, <<5, 7>>, <<8, 9>>>>

----------------------------------------------------------------------------
(* Depth-first search: entering and backtracking *)

EnterSteps == {i \in 1..Len(steps) : steps[i].action = "enter node"}
BacktrackSteps == {i \in 1..Len(steps) : steps[i].action = "backtrack"}
GoSteps == {i \in 1..Len(steps) : steps[i].action \notin {"enter node", "backtrack", "invalid start node"}}

\* the first k steps replayed against a stack: `open` holds the <<node, depth>>
\* of the entered nodes not backtracked yet, `ok` tells that every backtrack
\* closed the node entered last and every step belongs to that node
RECURSIVE Nested(_, _)
Nested(ss, k) ==
    IF k = 0 THEN [ok |-> TRUE, open |-> <<>>]
    ELSE LET p == Nested(ss, k - 1)
             s == ss[k]
             m == Len(p.open)
         IN IF ~p.ok THEN p
            ELSE IF s.action = "enter node"
            THEN [ok |-> s.depth = m, open |-> Append(p.open, <<s.node, s.depth>>)]
            ELSE IF s.action = "backtrack"
            THEN [ok |-> m > 0 /\ p.open[m] = <<s.node, s.depth>>,
                  open |-> SubSeq(p.open, 1, m - 1)]
            ELSE [ok |-> m > 0 /\ p.open[m] = <<s.node, s.depth>>, open |-> p.open]

Neighbors(u) == {e[2] : e \in {e \in InRangeEdges(input.nodeCount, input.edges) : e[1] = u}}
                    \cup {e[1] : e \in {e \in InRangeEdges(input.nodeCount, input.edges) : e[2] = u}}

\* what holds of every trace recorded so far
DfsTraceIsNested ==
    (sim = "dfs" /\ InRange(input.start, input.nodeCount)) =>
        /\ \A i, j \in EnterSteps : steps[i].node = steps[j].node => i = j
        /\ \A i, j \in BacktrackSteps : steps[i].node = steps[j].node => i = j
        /\ LET r == Nested(steps, Len(steps))
           IN /\ r.ok
              /\ r.open = [j \in DOMAIN mem.stack |-> <<mem.stack[j].u, mem.stack[j].depth>>]
              /\ Done => r.open = <<>>
        /\ \A i \in GoSteps :
               LET u == steps[i].node
                   v == steps[i + 1].node
                   seen == {steps[i].seen[j] : j \in DOMAIN steps[i].seen}
               IN /\ steps[i + 1].action = "enter node"
                  /\ steps[i].action = "go to neighbor " \o ToString(v)
                  /\ v \in Neighbors(u) \ seen
                  /\ \A w \in Neighbors(u) : w < v => w \in seen
        /\ Done => result = Cardinality(Component({input.start},
                                                  InRangeEdges(input.nodeCount, input.edges)))

\* C27: with a valid start each node is entered at most once, every 'enter
\* node' step is matched later by exactly one 'backtrack' step of the same node
\* and depth in properly nested order (the run ends with every entered node
\* backtracked), unseen neighbours are explored in ascending id order, and the
\* result is the size of the connected component of start.
DfsEntersAndBacktracks ==
    /\ []DfsTraceIsNested
    /\ (sim = "dfs" /\ InRange(input.start, input.nodeCount)) ~>
           (Done /\ Cardinality(EnterSteps) = Cardinality(BacktrackSteps))

\* node 0 was given its neighbours in descending order and explored 1 before 2
AscendingNeighborsExplored ==
    /\ sim = "dfs" /\ Done
    /\ input = [nodeCount |-> 3, edges |-> <<<<0, 2>>, <<0, 1>>>>, start |-> 0]
    /\ result = 3
    /\ steps[3].node = 1 /\ steps[3].action = "enter node"

----------------------------------------------------------------------------
(* Trie: prefix existence *)

\* word.startsWith(prefix)
StartsWith(word, prefix) ==
    Len(prefix) <= Len(word) /\ SubSeq(word, 1, Len(prefix)) = prefix

SomeWordStartsWith(words, prefix) == \E j \in DOMAIN words : StartsWith(words[j], prefix)

\* 1-based depths of the prefix at which no word goes along
UnmatchedDepths(words, prefix) ==
    {d \in 1..Len(prefix) : ~SomeWordStartsWith(words, SubSeq(prefix, 1, d))}

\* C28: the result is true iff at least one inserted word starts with the
\* prefix, for every word list (the empty one included) and every prefix (the
\* empty one included); on a missing character the trace ends with 'prefix
\* char missing' at the depth of the first unmatched character.
TriePrefixIsPrefixExistence ==
    (sim = "trie" /\ Done) =>
        /\ result <=> SomeWordStartsWith(input.words, input.prefix)
        /\ LastStep.action = "prefix char missing" =>
               /\ UnmatchedDepths(input.words, input.prefix) # {}
               /\ LastStep.depth = SetMin(UnmatchedDepths(input.words, input.prefix))
               /\ LastStep.char = input.prefix[LastStep.depth]
        /\ LastStep.action = "prefix char missing" <=> ~result

----------------------------------------------------------------------------
(* explainSimple(key, step): the explanation shown for a step *)

\* hay.includes(needle)
Includes(hay, needle) ==
    \E o \in 1..(Len(hay) - Len(needle) + 1) : SubSeq(hay, o, o + Len(needle) - 1) = needle

\* the case 'hash_set' of the switch; the cases of the other patterns are not
\* modelled
explainSimple(key, step) ==
    CASE key = "hash_set" ->
        IF Includes(step.action, "duplicate")
        THEN [what |-> "Found a repeated value.",
              why |-> "Repeat means duplicate exists, so we can stop."]
        ELSE [what |-> "Saved this value in the set.",
              why |-> "So we can check future repeats quickly."]

\* C29: for a hash_set trace explainSimple reports a repeated value only for
\* the step in which a duplicate was detected ('duplicate found -> stop'),
\* never for an 'insert into set' step or the final 'finished: no duplicates'
\* step.
ExplanationMatchesHashDuplicate ==
    sim = "hash_set" =>
        \A i \in 1..Len(steps) :
           explainSimple("hash_set", steps[i]).what = "Found a repeated value."
               <=> steps[i].action = "duplicate found -> stop"

----------------------------------------------------------------------------
(* StepPlayer({pattern, steps, renderVisual}): index, autoPlay, speedMs and the
   auto-play timer *)

MaxTrace == 3
MaxActs == 4

\* values of the speed slider
Speeds == {120, 500, 1400}

\* the traces handed to the player; two of each length, so that a trace can
\* be replaced by another one of the same length
Traces == {[j \in 1..n |-> [step |-> j - 1, action |-> a]] : n \in 1..MaxTrace, a \in {"a", "b"}}

\* no timeout is pending
NoTimer == [armed |-> FALSE, len |-> 0, index |-> 0, speedMs |-> 0, touched |-> FALSE]

\* the auto-play effect after a render with these values, its own re-run after
\* setAutoPlay(false) included.  A pending timeout remembers steps.length of
\* its closure and the index and speed of the render that armed it; `touched`
\* tells that the user has acted since, and mem.firedAfterAction that such a
\* timeout has fired.
AutoPlayEffect(index, autoPlay, speedMs, n) ==
    IF ~autoPlay \/ n = 0 THEN [autoPlay |-> autoPlay, timer |-> NoTimer]
    ELSE IF index >= n - 1 THEN [autoPlay |-> FALSE, timer |-> NoTimer]
    ELSE [autoPlay |-> TRUE,
          timer |-> [armed |-> TRUE, len |-> n, index |-> index, speedMs |-> speedMs,
                     touched |-> FALSE]]

\* the state after a state change: the render, the cleanup of the previous
\* effect (clearTimeout) and the effect
Rendered(index, autoPlay, speedMs, n) ==
    LET e == AutoPlayEffect(index, autoPlay, speedMs, n)
    IN [mem EXCEPT !.index = index, !.autoPlay = e.autoPlay, !.speedMs = speedMs,
                   !.timer = e.timer]

\* a setter called with the value the state already has: no render, no effect,
\* a pending timeout stays pending
Unchanged == [mem EXCEPT !.timer.touched = mem.timer.armed]

PrevIndex(x) == Max2(0, x - 1)

NextIndexUnclamped(x, n) == x + 1

NextIndex(x, n) == Min2(n - 1, x + 1)

\* after the mount: useState(0), useState(false), useState(500); both effects
\* have run and armed nothing
InitStepPlayer ==
    /\ sim = "step_player"
    /\ pc = "mounted"
    /\ input = [pattern |-> "hash_set"]
    /\ steps \in Traces
    /\ mem = [index |-> 0, autoPlay |-> FALSE, speedMs |-> 500, timer |-> NoTimer,
              acts |-> 0, firedAfterAction |-> FALSE]
    /\ result = Null
    /\ store = <<>>
    /\ earlier = Null

\* a click, a drag or a new trace: something the user does
UserActs(next) ==
    /\ sim = "step_player" /\ pc = "mounted"
    /\ mem.acts < MaxActs
    /\ mem' = [next EXCEPT !.acts = mem.acts + 1]
    /\ UNCHANGED <<sim, earlier, pc, input, result, store>>

ClickPrev ==
    /\ UserActs(IF PrevIndex(mem.index) = mem.index THEN Unchanged
                ELSE Rendered(PrevIndex(mem.index), mem.autoPlay, mem.speedMs, Len(steps)))
    /\ UNCHANGED steps

ClickNext ==
    /\ UserActs(IF NextIndex(mem.index, Len(steps)) = mem.index THEN Unchanged
                ELSE Rendered(NextIndex(mem.index, Len(steps)), mem.autoPlay, mem.speedMs,
                              Len(steps)))
    /\ UNCHANGED steps

\* the step slider, min 0 and max steps.length - 1, moved to another value
SeekSlider ==
    /\ \E v \in 0..Max2(0, Len(steps) - 1) :
          /\ v # mem.index
          /\ UserActs(Rendered(v, mem.autoPlay, mem.speedMs, Len(steps)))
    /\ UNCHANGED steps

ToggleAutoPlay ==
    /\ UserActs(Rendered(mem.index, ~mem.autoPlay, mem.speedMs, Len(steps)))
    /\ UNCHANGED steps

\* the speed slider moved to another value
ChangeSpeed ==
    /\ \E s \in Speeds :
          /\ s # mem.speedMs
          /\ UserActs(Rendered(mem.index, mem.autoPlay, s, Len(steps)))
    /\ UNCHANGED steps

\* the parent hands over a new steps array: the render, then the reset effect
\* and the auto-play effect, then the render and effects of the reset state
ReplaceTrace ==
    /\ \E t \in Traces :
          /\ t # steps
          /\ steps' = t
          /\ UserActs(Rendered(0, FALSE, mem.speedMs, Len(t)))

\* the pending timeout fires: setIndex((prev) => Math.min(prev + 1, steps.length - 1))
TimerTick ==
    /\ sim = "step_player" /\ pc = "mounted"
    /\ mem.timer.armed
    /\ LET next == Min2(mem.index + 1, mem.timer.len - 1)
           after == IF next = mem.index THEN [mem EXCEPT !.timer = NoTimer]
                    ELSE Rendered(next, mem.autoPlay, mem.speedMs, Len(steps))
       IN mem' = [after EXCEPT !.firedAfterAction = mem.firedAfterAction \/ mem.timer.touched]
    /\ UNCHANGED <<sim, earlier, pc, input, steps, result, store>>

NextStepPlayer ==
    \/ ClickPrev
    \/ ClickNext
    \/ SeekSlider
    \/ ToggleAutoPlay
    \/ ChangeSpeed
    \/ ReplaceTrace
    \/ TimerTick

\* a timeout that is due fires; the user is free to act or not
SpecStepPlayer == InitStepPlayer /\ [][NextStepPlayer]_vars /\ WF_vars(TimerTick)

----------------------------------------------------------------------------
(* StepPlayer: index in range, ticks, and the end of auto play *)

IndexInRange == sim = "step_player" => (0 <= mem.index /\ mem.index <= Len(steps) - 1)

\* a pending timeout belongs to the current render, and auto play is on exactly
\* while one is pending
TimerIsCurrent ==
    sim = "step_player" =>
        /\ mem.timer.armed <=> mem.autoPlay
        /\ mem.timer.armed =>
               /\ mem.timer.len = Len(steps)
               /\ mem.timer.index = mem.index
               /\ mem.timer.speedMs = mem.speedMs
               /\ mem.index < Len(steps) - 1

TickAdvancesByOne == TimerTick => mem'.index = mem.index + 1

ReplacingResets == steps' # steps => (mem'.index = 0 /\ ~mem'.autoPlay /\ ~mem'.timer.armed)

\* once the user has stopped acting, auto play runs to the last step and stops
AutoPlayRunsOut ==
    (sim = "step_player" /\ mem.autoPlay /\ mem.acts = MaxActs)
        ~> (mem.index = Len(steps) - 1 /\ ~mem.autoPlay)

\* C30 as stated: the index stays within [0, steps.length - 1]; each tick
\* advances it by exactly one; a timer armed before a user action never fires
\* after it; left alone, auto play reaches the last step and turns itself off;
\* replacing the trace resets the index to 0 and turns auto play off.
StepPlayerNeverFiresOldTimer ==
    /\ [](IndexInRange /\ (sim = "step_player" => ~mem.firedAfterAction))
    /\ [][TickAdvancesByOne /\ ReplacingResets]_vars
    /\ AutoPlayRunsOut

\* C30 as amended: as stated, except that the timer that fires is the one of
\* the current render: a user action that changes the index, auto play, the
\* speed or the trace clears the pending timer, one that changes nothing (Prev
\* at index 0) leaves it pending.
StepPlayerKeepsCurrentTimer ==
    /\ [](IndexInRange /\ TimerIsCurrent)
    /\ [][TickAdvancesByOne /\ ReplacingResets]_vars
    /\ AutoPlayRunsOut

\* auto play has run to the last step of a three-step trace and turned itself
\* off, one of its ticks coming from a timer that was pending during a click
\* that changed nothing
AutoPlayRanOutAfterIdlePrev ==
    /\ sim = "step_player"
    /\ Len(steps) = 3 /\ mem.index = 2 /\ ~mem.autoPlay
    /\ mem.acts = 2
    /\ mem.firedAfterAction
    /\ ~mem.timer.armed

====
